---- MODULE Spec2Model ----
(***************************************************************************)
(* A model of the CruxVault storage engine (cruxvault/storage/local.py):   *)
(* the encrypted working store with per-path version history, and the      *)
(* branch / commit / checkout / merge layer on top of it.                  *)
(*                                                                         *)
(* Tables are modelled by their rows.  `secrets`, `branches`, `commits`    *)
(* and `commit_secrets` are sets of rows; `secret_versions` is the table   *)
(* in insertion (id) order, because it can hold rows that agree on every   *)
(* modelled column.  Timestamps, created_by, message and author are not    *)
(* modelled.                                                               *)
(***************************************************************************)
EXTENDS Integers, Sequences, FiniteSets, TLC

(***************************************************************************)
(* Bounds                                                                  *)
(***************************************************************************)
\* number of encryptions (set_secret calls) in one behaviour
MaxEnc == 2
\* number of commits in one behaviour
MaxCommits == 1
\* number of commits in one behaviour of the version-control specification
MaxVcCommits == 2
\* nesting depth of get_secret calls the interpreter allows before it
\* raises RecursionError
MaxDepth == 3
\* number of SecretVersion rows up to which rollback is called
MaxHistory == 3

(***************************************************************************)
(* Inputs                                                                  *)
(***************************************************************************)
Paths == {"a", "b"}
BranchNames == {"main", "feature"}
\* the (secret_type, tags) arguments of set_secret
Kinds == { <<"secret", << >> >>, <<"config", <<"prod">> >> }

\* A plaintext is a sequence of tokens: literal text, or one match of the
\* pattern \$\{([^}]+)\} with its group 1.
Lit(s) == [kind |-> "lit", s |-> s]
Ref(p) == [kind |-> "ref", s |-> p]
Values == { <<Lit("x")>>, <<Ref("b")>> }

\* the plaintexts of the version-control specification
VcValues == { <<Lit("x")>>, <<Lit("y")>> }

\* head_commit_id of a branch without commits (None)
NoHead == 0

\* the commit ids and the limits the read operations are called with
CommitIds == 1..(MaxVcCommits + 1)
Limits == 0..(MaxVcCommits + 1)

VARIABLES secrets, secret_versions, branches, commits, commit_secrets,
          nonces, call, ret,
          \* the audit log file, one element per line, and the logger's
          \* configuration
          audit_log, enabled, log_reads, log_writable,
          \* the current branch held by the configuration, and the command
          \* line's last command
          current_branch, cli,
          \* the sessions of the processes that share the database
          sessions,
          \* an Encryptor with its input and outputs
          cipher

store_vars == <<secrets, secret_versions, branches, commits, commit_secrets,
                nonces, call, ret>>

aux_vars == <<audit_log, enabled, log_reads, log_writable, current_branch,
              cli, sessions, cipher>>

vars == <<store_vars, aux_vars>>

(***************************************************************************)
(* Cipher                                                                  *)
(***************************************************************************)
\* Plaintext and ciphertext are both strings: a ciphertext is the nonce
\* followed by the enciphered plaintext, under the one master key.
nonce_part(nonce) == [kind |-> "nonce", s |-> ToString(nonce)]

\* encrypt that draws the same nonce every time
encrypt_fixed_nonce(plaintext, nonce) == <<nonce_part(0)>> \o plaintext

\* encrypt: a fresh nonce followed by the ciphertext of the plaintext
encrypt(plaintext, nonce) == <<nonce_part(nonce)>> \o plaintext

\* decrypt: split off the nonce, recover the plaintext
decrypt(encrypted) == Tail(encrypted)

(***************************************************************************)
(* Query helpers                                                           *)
(***************************************************************************)
\* Result.scalar_one_or_none over a set of rows: "none", "one" or "many"
\* (MultipleResultsFound)
scalar_one_or_none(rows) ==
    IF rows = {} THEN "none"
    ELSE IF Cardinality(rows) = 1 THEN "one" ELSE "many"

\* SecretRows that finds no row
SecretRows_none(p) == {}

\* select(SecretModel).where(SecretModel.path == p)
SecretRows(p) == {r \in secrets : r.path = p}
BranchRows(n) == {b \in branches : b.name = n}
CommitRows(c) == {k \in commits : k.id = c}
SnapshotRows(c) == {cs \in commit_secrets : cs.commit_id = c}
TheRow(rows) == CHOOSE r \in rows : TRUE

\* indices of the secret_versions rows of path p
VersionIdx(p) == {i \in 1..Len(secret_versions) : secret_versions[i].path = p}

RECURSIVE SeqWithout(_, _)
\* the rows of a table that are not deleted, in their order
SeqWithout(s, p) ==
    IF s = << >> THEN << >>
    ELSE IF Head(s).path = p THEN SeqWithout(Tail(s), p)
         ELSE <<Head(s)>> \o SeqWithout(Tail(s), p)

(***************************************************************************)
(* Working store: reads                                                    *)
(***************************************************************************)
ValidTypes == {"secret", "config", "flag"}

\* what get_secret hands back: found = FALSE is Python's None, err # "" is
\* the exception that left the call
NoSecret == [found |-> FALSE, err |-> "", path |-> "", value |-> << >>,
             type |-> "", version |-> 0, tags |-> << >>]

\* json.loads(row.tags) if row.tags else []
LoadTags(tags) == tags

RECURSIVE GetSecretIn(_, _, _)
RECURSIVE ExpandIn(_, _, _, _, _)
RECURSIVE ExpandTokens(_, _, _, _, _)

\* replace_var: the replacement for one ${name} match; any exception
\* inside (None has no .value, circular reference, RecursionError,
\* MultipleResultsFound) leaves the match as it is
replace_var(S, tok, visited, depth) ==
    LET var_secret == GetSecretIn(S, tok.s, depth - 1)
    IN  IF var_secret.err # "" \/ ~var_secret.found THEN <<tok>>
        ELSE LET e == ExpandIn(S, var_secret.value, tok.s, visited, depth - 1)
             IN  IF e.err # "" THEN <<tok>> ELSE e.value

\* re.sub over the matches of the value, left to right
ExpandTokens(S, value, i, visited, depth) ==
    IF i > Len(value) THEN << >>
    ELSE (IF value[i].kind = "ref"
          THEN replace_var(S, value[i], visited, depth)
          ELSE <<value[i]>>)
         \o ExpandTokens(S, value, i + 1, visited, depth)

\* _expand_variables(value, path, visited) over the table S
ExpandIn(S, value, path, visited, depth) ==
    IF depth <= 0 THEN [err |-> "RecursionError", value |-> << >>]
    ELSE IF path \in visited
    THEN [err |-> "Circular reference detected", value |-> << >>]
    ELSE [err |-> "",
          value |-> ExpandTokens(S, value, 1, visited \cup {path}, depth)]

\* get_secret(path) over the table S, with `depth` nested calls left
GetSecretIn(S, path, depth) ==
    LET rows == {r \in S : r.path = path}
        found == scalar_one_or_none(rows)
    IN  IF depth <= 0 THEN [NoSecret EXCEPT !.err = "RecursionError"]
        ELSE IF found = "many"
        THEN [NoSecret EXCEPT !.err = "MultipleResultsFound"]
        ELSE IF found = "none" THEN NoSecret
        ELSE LET secret_model == TheRow(rows)
                 expanded == ExpandIn(S, decrypt(secret_model.encrypted_value),
                                      path, {}, depth)
             IN  IF expanded.err # ""
                 THEN [NoSecret EXCEPT !.err = expanded.err]
                 ELSE IF secret_model.type \notin ValidTypes
                 THEN [NoSecret EXCEPT !.err = "ValueError"]
                 ELSE [found |-> TRUE, err |-> "",
                       path |-> secret_model.path,
                       value |-> expanded.value,
                       type |-> secret_model.type,
                       version |-> secret_model.version,
                       tags |-> LoadTags(secret_model.tags)]

get_secret(path) == GetSecretIn(secrets, path, MaxDepth)

\* the orders a SELECT ... ORDER BY version DESC may return the rows in:
\* every arrangement of the indices with non-increasing version
OrderByVersionDesc(V, idx) ==
    LET n == Cardinality(idx)
    IN  {f \in [1..n -> idx] :
            /\ \A i, j \in 1..n : i # j => f[i] # f[j]
            /\ \A i \in 1..n : i < n => V[f[i]].version >= V[f[i + 1]].version}

HistoryEntry(path, encrypted_value, version) ==
    [path |-> path, value |-> decrypt(encrypted_value), version |-> version]

\* get_history(path) over the tables S and V: the set of lists the call
\* can return (one list, unless two history rows tie on version)
GetHistoryIn(S, V, path) ==
    LET rows == {r \in S : r.path = path}
        idx == {i \in 1..Len(V) : V[i].path = path}
    IN  IF rows = {} THEN { << >> }
        ELSE LET current == TheRow(rows)
             IN  { <<HistoryEntry(current.path, current.encrypted_value,
                                  current.version)>>
                   \o [i \in 1..Cardinality(idx) |->
                         HistoryEntry(V[f[i]].path, V[f[i]].encrypted_value,
                                      V[f[i]].version)]
                   : f \in OrderByVersionDesc(V, idx) }

get_history(path) == GetHistoryIn(secrets, secret_versions, path)

\* the Secret returned to the caller of set_secret and rollback
SecretOf(row, value, tags) ==
    [found |-> TRUE, err |-> "", path |-> row.path, value |-> value,
     type |-> row.type, version |-> row.version, tags |-> tags]

(***************************************************************************)
(* Working store: list_secrets and the LIKE operator of the database       *)
(***************************************************************************)
\* paths and prefixes with a wildcard character or an upper-case letter
ListPaths == {"ab", "Ab", "a_"}
Prefixes == {"", "a", "A", "a_", "%"}

\* the characters of the strings in use
Chars ==
    ("" :> << >>) @@ ("a" :> <<"a">>) @@ ("b" :> <<"b">>) @@
    ("A" :> <<"A">>) @@ ("%" :> <<"%">>) @@
    ("ab" :> <<"a", "b">>) @@ ("Ab" :> <<"A", "b">>) @@
    ("a_" :> <<"a", "_">>) @@ ("." :> <<".">>) @@
    ("a\nb" :> <<"a", "\n", "b">>)

\* the code of a character (ASCII), which orders strings under the BINARY
\* collation of ORDER BY
Ord == ("%" :> 37) @@ ("A" :> 65) @@ ("_" :> 95) @@ ("a" :> 97) @@ ("b" :> 98)

\* LIKE folds the case of ASCII letters
Lower(c) == IF c = "A" THEN "a" ELSE c

\* string LIKE pattern: '%' matches any run of characters, '_' any one
\* character, every other character itself up to case
RECURSIVE Like(_, _)
Like(pattern, string) ==
    IF pattern = << >> THEN string = << >>
    ELSE IF Head(pattern) = "%"
    THEN \/ Like(Tail(pattern), string)
         \/ string # << >> /\ Like(pattern, Tail(string))
    ELSE IF string = << >> THEN FALSE
    ELSE /\ \/ Head(pattern) = "_"
            \/ Lower(Head(pattern)) = Lower(Head(string))
         /\ Like(Tail(pattern), Tail(string))

\* f"{prefix}%"
like_pattern(prefix) == Chars[prefix] \o <<"%">>

\* a < b for two strings, character code by character code
RECURSIVE StringLess(_, _)
StringLess(a, b) ==
    IF b = << >> THEN FALSE
    ELSE IF a = << >> THEN TRUE
    ELSE IF Ord[Head(a)] # Ord[Head(b)] THEN Ord[Head(a)] < Ord[Head(b)]
    ELSE StringLess(Tail(a), Tail(b))

\* ORDER BY path
RECURSIVE OrderByPath(_)
OrderByPath(rows) ==
    IF rows = {} THEN << >>
    ELSE LET first == CHOOSE r \in rows :
                         \A o \in rows :
                            ~StringLess(Chars[o.path], Chars[r.path])
         IN  <<first>> \o OrderByPath(rows \ {first})

NoList == [err |-> "", secrets |-> << >>]

\* list_secrets(prefix) over the table S
ListSecretsIn(S, prefix) ==
    LET results == OrderByPath(
                      IF prefix # ""
                      THEN {r \in S : Like(like_pattern(prefix), Chars[r.path])}
                      ELSE S)
    IN  IF \E i \in 1..Len(results) : results[i].type \notin ValidTypes
        THEN [NoList EXCEPT !.err = "ValueError"]
        ELSE [NoList EXCEPT !.secrets =
                 [i \in 1..Len(results) |->
                     SecretOf(results[i],
                              decrypt(results[i].encrypted_value),
                              LoadTags(results[i].tags))]]

list_secrets(prefix) == ListSecretsIn(secrets, prefix)

(***************************************************************************)
(* Calls and results                                                       *)
(***************************************************************************)
\* no command has run
NoCommand == [command |-> "", path |-> "", outcome |-> "", pc |-> ""]

\* the processes that open the database, and a session that holds nothing
Procs == {1, 2}
NoSession == [state |-> "closed", path |-> "", value |-> << >>,
              tags |-> << >>, encrypted_value |-> << >>, found |-> "none",
              existing |-> [path |-> "", encrypted_value |-> << >>,
                            type |-> "", version |-> 0, tags |-> << >>]]

\* no Encryptor has been built
NoCipher == [step |-> "", key |-> << >>, plaintext |-> << >>,
             encrypted |-> << >>, decrypted |-> << >>, err |-> ""]

NoCall == [op |-> "init", path |-> "", value |-> << >>, type |-> "",
           tags |-> << >>, version |-> 0, branch |-> "", source |-> "",
           commit_id |-> 0]

NoRet == [err |-> "", secret |-> NoSecret, flag |-> FALSE,
          commit_id |-> 0, conflicts |-> {}]

Init ==
    /\ secrets = {}
    /\ secret_versions = << >>
    /\ branches = {}
    /\ commits = {}
    /\ commit_secrets = {}
    /\ nonces = 0
    /\ call = NoCall
    /\ ret = NoRet
    /\ audit_log = << >>
    /\ enabled = TRUE
    /\ log_reads = FALSE
    /\ log_writable = TRUE
    /\ current_branch = ""
    /\ cli = NoCommand
    /\ sessions = [pr \in Procs |-> NoSession]
    /\ cipher = NoCipher

(***************************************************************************)
(* Working store: writes                                                   *)
(***************************************************************************)
\* version_record that numbers the preserved row as the new version
version_record_bumped(existing) ==
    [path |-> existing.path, encrypted_value |-> existing.encrypted_value,
     version |-> existing.version + 1]

\* the SecretVersion row that preserves the current row
version_record(existing) ==
    [path |-> existing.path, encrypted_value |-> existing.encrypted_value,
     version |-> existing.version]

\* updated_secret that leaves the stored ciphertext as it was
updated_secret_stale(existing, encrypted_value, tags) ==
    [existing EXCEPT !.version = @ + 1, !.tags = tags]

\* updated_secret that leaves the tags of the row as they were
updated_secret_tags_kept(existing, encrypted_value, tags) ==
    [existing EXCEPT !.encrypted_value = encrypted_value,
                     !.version = @ + 1]

\* the current row after an update through set_secret
updated_secret(existing, encrypted_value, tags) ==
    [existing EXCEPT !.encrypted_value = encrypted_value,
                     !.version = @ + 1,
                     !.tags = tags]

\* new_secret that stores the value as it was given
new_secret_plaintext(path, encrypted_value, secret_type, tags) ==
    [path |-> path, encrypted_value |-> decrypt(encrypted_value),
     type |-> secret_type, version |-> 1, tags |-> tags]

\* the current row set_secret inserts for a new path
new_secret(path, encrypted_value, secret_type, tags) ==
    [path |-> path, encrypted_value |-> encrypted_value,
     type |-> secret_type, version |-> 1, tags |-> tags]

set_secret(path, value, secret_type, tags) ==
    /\ call' = [NoCall EXCEPT !.op = "set_secret", !.path = path,
                              !.value = value, !.type = secret_type,
                              !.tags = tags]
    /\ nonces' = nonces + 1
    /\ UNCHANGED <<branches, commits, commit_secrets>>
    /\ LET rows == SecretRows(path)
           found == scalar_one_or_none(rows)
           encrypted_value == encrypt(value, nonces + 1)
       IN  IF found = "many"
           THEN /\ ret' = [NoRet EXCEPT !.err = "MultipleResultsFound"]
                /\ UNCHANGED <<secrets, secret_versions>>
           ELSE IF found = "one"
           THEN LET existing == TheRow(rows)
                    updated == updated_secret(existing, encrypted_value, tags)
                IN  /\ secret_versions' =
                           Append(secret_versions, version_record(existing))
                    /\ secrets' = (secrets \ {existing}) \cup {updated}
                    /\ ret' = IF updated.type \in ValidTypes
                              THEN [NoRet EXCEPT
                                      !.secret = SecretOf(updated, value, tags)]
                              ELSE [NoRet EXCEPT !.err = "ValueError"]
           ELSE LET inserted == new_secret(path, encrypted_value,
                                           secret_type, tags)
                IN  /\ secrets' = secrets \cup {inserted}
                    /\ UNCHANGED secret_versions
                    /\ ret' = IF inserted.type \in ValidTypes
                              THEN [NoRet EXCEPT
                                      !.secret = SecretOf(inserted, value, tags)]
                              ELSE [NoRet EXCEPT !.err = "ValueError"]

delete_secret(path) ==
    /\ call' = [NoCall EXCEPT !.op = "delete_secret", !.path = path]
    /\ UNCHANGED <<branches, commits, commit_secrets, nonces>>
    /\ LET rows == SecretRows(path)
           found == scalar_one_or_none(rows)
       IN  IF found = "many"
           THEN /\ ret' = [NoRet EXCEPT !.err = "MultipleResultsFound"]
                /\ UNCHANGED <<secrets, secret_versions>>
           ELSE IF found = "none"
           THEN /\ ret' = [NoRet EXCEPT !.flag = FALSE]
                /\ UNCHANGED <<secrets, secret_versions>>
           ELSE /\ secret_versions' = SeqWithout(secret_versions, path)
                /\ secrets' = secrets \ rows
                /\ ret' = [NoRet EXCEPT !.flag = TRUE]

\* rolled_back that encrypts the old plaintext again, under a new nonce
rolled_back_reencrypted(current, version_model) ==
    [current EXCEPT
        !.encrypted_value = encrypt(decrypt(version_model.encrypted_value), 0),
        !.version = @ + 1]

\* the current row after rollback to the history row version_model
rolled_back(current, version_model) ==
    [current EXCEPT !.encrypted_value = version_model.encrypted_value,
                    !.version = @ + 1]

\* version_rows that filters by path only
version_rows_any(path, version) ==
    {i \in 1..Len(secret_versions) : secret_versions[i].path = path}

\* the secret_versions rows (by index) the first select of rollback matches
version_rows(path, version) ==
    {i \in 1..Len(secret_versions) :
        /\ secret_versions[i].path = path
        /\ secret_versions[i].version = version}

rollback(path, version) ==
    /\ call' = [NoCall EXCEPT !.op = "rollback", !.path = path,
                              !.version = version]
    /\ UNCHANGED <<branches, commits, commit_secrets, nonces>>
    /\ LET vidx == version_rows(path, version)
           vfound == scalar_one_or_none(vidx)
           rows == SecretRows(path)
           found == scalar_one_or_none(rows)
       IN  IF vfound = "many"
           THEN /\ ret' = [NoRet EXCEPT !.err = "MultipleResultsFound"]
                /\ UNCHANGED <<secrets, secret_versions>>
           ELSE IF vfound = "none"
           THEN /\ ret' = [NoRet EXCEPT !.err = "Version not found"]
                /\ UNCHANGED <<secrets, secret_versions>>
           ELSE IF found = "many"
           THEN /\ ret' = [NoRet EXCEPT !.err = "MultipleResultsFound"]
                /\ UNCHANGED <<secrets, secret_versions>>
           ELSE IF found = "none"
           THEN /\ ret' = [NoRet EXCEPT !.err = "Secret not found"]
                /\ UNCHANGED <<secrets, secret_versions>>
           ELSE LET version_model == secret_versions[TheRow(vidx)]
                    current == TheRow(rows)
                    restored == rolled_back(current, version_model)
                IN  /\ secret_versions' =
                           Append(secret_versions, version_record(current))
                    /\ secrets' = (secrets \ {current}) \cup {restored}
                    /\ ret' = IF restored.type \in ValidTypes
                              THEN [NoRet EXCEPT !.secret =
                                      SecretOf(restored,
                                               decrypt(restored.encrypted_value),
                                               LoadTags(restored.tags))]
                              ELSE [NoRet EXCEPT !.err = "ValueError"]

(***************************************************************************)
(* Version control: reads                                                  *)
(***************************************************************************)
\* {cs.path: cs for cs in rows}: the paths of a snapshot
PathsOf(rows) == {r.path : r \in rows}

\* the row a dict built from the rows holds for a path
RowAt(rows, p) == CHOOSE r \in rows : r.path = p

HeadOf(n) == TheRow(BranchRows(n)).head_commit_id

NoStatus == [err |-> "", added |-> {}, modified |-> {}, deleted |-> {}]

\* the current paths the head snapshot does not hold
status_added(current_secrets, committed) ==
    {p \in PathsOf(current_secrets) : p \notin PathsOf(committed)}

\* status_modified that compares the decrypted values
status_modified_by_value(current_secrets, committed) ==
    {p \in PathsOf(current_secrets) :
        /\ p \in PathsOf(committed)
        /\ decrypt(RowAt(current_secrets, p).encrypted_value) #
             decrypt(RowAt(committed, p).encrypted_value)}

\* the current paths whose ciphertext differs from the head snapshot's
status_modified(current_secrets, committed) ==
    {p \in PathsOf(current_secrets) :
        /\ p \in PathsOf(committed)
        /\ RowAt(current_secrets, p).encrypted_value #
             RowAt(committed, p).encrypted_value}

\* the paths of the head snapshot that are no current paths
status_deleted(current_secrets, committed) ==
    {p \in PathsOf(committed) : p \notin PathsOf(current_secrets)}

\* get_status(branch_name) over the tables S (secrets), B (branches) and
\* CS (commit_secrets)
GetStatusIn(S, B, CS, branch_name) ==
    LET brows == {b \in B : b.name = branch_name}
        found == scalar_one_or_none(brows)
    IN  IF found = "many" THEN [NoStatus EXCEPT !.err = "MultipleResultsFound"]
        ELSE IF found = "none" \/ TheRow(brows).head_commit_id = NoHead
        THEN [NoStatus EXCEPT !.added = PathsOf(S)]
        ELSE LET committed == {cs \in CS :
                                 cs.commit_id = TheRow(brows).head_commit_id}
             IN  [err |-> "",
                  added |-> status_added(S, committed),
                  modified |-> status_modified(S, committed),
                  deleted |-> status_deleted(S, committed)]

get_status(branch_name) ==
    GetStatusIn(secrets, branches, commit_secrets, branch_name)

\* old_value or new_value of a DiffEntry for the side that lacks the path
NoValue == << >>

diff_entry(path, status, old_value, new_value) ==
    [path |-> path, status |-> status,
     old_value |-> old_value, new_value |-> new_value]

diff_added(secrets1, secrets2) ==
    {diff_entry(p, "added", NoValue,
                decrypt(RowAt(secrets2, p).encrypted_value)) :
       p \in {q \in PathsOf(secrets2) : q \notin PathsOf(secrets1)}}

diff_modified(secrets1, secrets2) ==
    {diff_entry(p, "modified",
                decrypt(RowAt(secrets1, p).encrypted_value),
                decrypt(RowAt(secrets2, p).encrypted_value)) :
       p \in {q \in PathsOf(secrets2) :
                /\ q \in PathsOf(secrets1)
                /\ RowAt(secrets2, q).encrypted_value #
                     RowAt(secrets1, q).encrypted_value}}

\* diff_deleted that reports nothing
diff_deleted_none(secrets1, secrets2) == {}

diff_deleted(secrets1, secrets2) ==
    {diff_entry(p, "deleted",
                decrypt(RowAt(secrets1, p).encrypted_value), NoValue) :
       p \in {q \in PathsOf(secrets1) : q \notin PathsOf(secrets2)}}

NoDiff == [err |-> "", entries |-> {}]

\* diff_commits(commit1_id, commit2_id) over the table CS (commit_secrets):
\* the entries of the returned list; no path of the method raises a
\* logical error
DiffCommitsIn(CS, commit1_id, commit2_id) ==
    LET secrets1 == {cs \in CS : cs.commit_id = commit1_id}
        secrets2 == {cs \in CS : cs.commit_id = commit2_id}
    IN  [NoDiff EXCEPT !.entries =
            diff_added(secrets1, secrets2)
              \cup diff_modified(secrets1, secrets2)
              \cup diff_deleted(secrets1, secrets2)]

diff_commits(commit1_id, commit2_id) ==
    DiffCommitsIn(commit_secrets, commit1_id, commit2_id)

NoLog == [err |-> "", commits |-> << >>]

\* parent_of that ends every chain
parent_of_none(commit) == NoHead

\* the id the walk of get_commit_history visits after a commit
parent_of(commit) == commit.parent_id

\* the while loop of get_commit_history: the list collected from
\* current_commit_id on, after the commits already collected
RECURSIVE WalkCommits(_, _, _, _)
WalkCommits(C, current_commit_id, limit, collected) ==
    IF current_commit_id # NoHead /\ Len(collected) < limit
    THEN LET rows == {k \in C : k.id = current_commit_id}
             found == scalar_one_or_none(rows)
         IN  IF found = "many"
             THEN [NoLog EXCEPT !.err = "MultipleResultsFound"]
             ELSE IF found = "none"
             THEN [NoLog EXCEPT !.commits = collected]
             ELSE WalkCommits(C, parent_of(TheRow(rows)), limit,
                              Append(collected, TheRow(rows)))
    ELSE [NoLog EXCEPT !.commits = collected]

\* get_commit_history(branch_name, limit) over the tables B (branches) and
\* C (commits)
GetCommitHistoryIn(B, C, branch_name, limit) ==
    LET brows == {b \in B : b.name = branch_name}
        found == scalar_one_or_none(brows)
    IN  IF found = "many" THEN [NoLog EXCEPT !.err = "MultipleResultsFound"]
        ELSE IF found = "none" THEN [NoLog EXCEPT !.err = "Branch not found"]
        ELSE IF TheRow(brows).head_commit_id = NoHead THEN NoLog
        ELSE WalkCommits(C, TheRow(brows).head_commit_id, limit, << >>)

get_commit_history(branch_name, limit) ==
    GetCommitHistoryIn(branches, commits, branch_name, limit)

(***************************************************************************)
(* Version control: writes                                                 *)
(***************************************************************************)
\* branch_model that never inherits a head
branch_model_unborn(name, head_commit_id) ==
    [name |-> name, head_commit_id |-> NoHead]

\* the Branch row create_branch inserts
branch_model(name, head_commit_id) ==
    [name |-> name, head_commit_id |-> head_commit_id]

create_branch(name, from_branch) ==
    /\ call' = [NoCall EXCEPT !.op = "create_branch", !.branch = name,
                              !.source = from_branch]
    /\ UNCHANGED <<secrets, secret_versions, commits, commit_secrets, nonces>>
    /\ LET existing == scalar_one_or_none(BranchRows(name))
           source == scalar_one_or_none(BranchRows(from_branch))
       IN  IF existing = "many" \/ (from_branch # "" /\ source = "many")
           THEN /\ ret' = [NoRet EXCEPT !.err = "MultipleResultsFound"]
                /\ UNCHANGED branches
           ELSE IF existing = "one"
           THEN /\ ret' = [NoRet EXCEPT !.err = "Branch already exists"]
                /\ UNCHANGED branches
           ELSE IF from_branch # "" /\ source = "none"
           THEN /\ ret' = [NoRet EXCEPT !.err = "Branch not found"]
                /\ UNCHANGED branches
           ELSE LET head_commit_id == IF from_branch # ""
                                      THEN HeadOf(from_branch) ELSE NoHead
                IN  /\ branches' = branches \cup
                          {branch_model(name, head_commit_id)}
                    /\ ret' = [NoRet EXCEPT !.commit_id = head_commit_id]

\* protected_branch that protects no branch
protected_branch_none(name) == FALSE

\* the branch delete_branch refuses to delete
protected_branch(name) == name = "main"

\* remaining_branches that deletes nothing
remaining_branches_all(B, rows) == B

\* the branches table after session.delete of the rows found
remaining_branches(B, rows) == B \ rows

\* list_branches(): the name and head of every branch
list_branches == {[name |-> b.name, head_commit_id |-> b.head_commit_id] :
                     b \in branches}

delete_branch(name) ==
    /\ call' = [NoCall EXCEPT !.op = "delete_branch", !.branch = name]
    /\ UNCHANGED <<secrets, secret_versions, commits, commit_secrets, nonces>>
    /\ LET found == scalar_one_or_none(BranchRows(name))
       IN  IF protected_branch(name)
           THEN /\ ret' = [NoRet EXCEPT !.err = "Cannot delete main branch"]
                /\ UNCHANGED branches
           ELSE IF found = "many"
           THEN /\ ret' = [NoRet EXCEPT !.err = "MultipleResultsFound"]
                /\ UNCHANGED branches
           ELSE IF found = "none"
           THEN /\ ret' = [NoRet EXCEPT !.flag = FALSE]
                /\ UNCHANGED branches
           ELSE /\ branches' = remaining_branches(branches, BranchRows(name))
                /\ ret' = [NoRet EXCEPT !.flag = TRUE]

\* the id the database gives the next commit row
NextCommitId == IF commits = {} THEN 1
                ELSE (CHOOSE k \in commits :
                         \A o \in commits : o.id <= k.id).id + 1

\* commit_secret that stores the value under a new nonce
commit_secret_reencrypted(commit_id, secret) ==
    [commit_id |-> commit_id, path |-> secret.path,
     encrypted_value |-> encrypt(decrypt(secret.encrypted_value), 0),
     type |-> secret.type, tags |-> secret.tags]

\* commit_secret that files every row under the first commit
commit_secret_first_commit(commit_id, secret) ==
    [commit_id |-> 1, path |-> secret.path,
     encrypted_value |-> secret.encrypted_value,
     type |-> secret.type, tags |-> secret.tags]

\* the CommitSecret row that snapshots one current row
commit_secret(commit_id, secret) ==
    [commit_id |-> commit_id, path |-> secret.path,
     encrypted_value |-> secret.encrypted_value,
     type |-> secret.type, tags |-> secret.tags]

\* commit_model that starts a new chain
commit_model_root(id, branch, branch_name) ==
    [id |-> id, parent_id |-> NoHead, branch |-> branch_name]

\* commit_model whose parent is the commit itself
commit_model_own_parent(id, branch, branch_name) ==
    [id |-> id, parent_id |-> id, branch |-> branch_name]

\* the Commit row created on a branch
commit_model(id, branch, branch_name) ==
    [id |-> id, parent_id |-> branch.head_commit_id, branch |-> branch_name]

commit(branch_name) ==
    /\ call' = [NoCall EXCEPT !.op = "commit", !.branch = branch_name]
    /\ UNCHANGED <<secrets, secret_versions, nonces>>
    /\ LET found == scalar_one_or_none(BranchRows(branch_name))
       IN  IF found = "many"
           THEN /\ ret' = [NoRet EXCEPT !.err = "MultipleResultsFound"]
                /\ UNCHANGED <<branches, commits, commit_secrets>>
           ELSE IF found = "none"
           THEN /\ ret' = [NoRet EXCEPT !.err = "Branch not found"]
                /\ UNCHANGED <<branches, commits, commit_secrets>>
           ELSE LET branch == TheRow(BranchRows(branch_name))
                    id == NextCommitId
                IN  /\ commits' = commits \cup
                           {commit_model(id, branch, branch_name)}
                    /\ commit_secrets' = commit_secrets \cup
                           {commit_secret(id, secret) : secret \in secrets}
                    /\ branches' = (branches \ {branch}) \cup
                           {[branch EXCEPT !.head_commit_id = id]}
                    /\ ret' = [NoRet EXCEPT !.commit_id = id]

\* restored_secret that leaves type to the column default
restored_secret_default_type(cs) ==
    [path |-> cs.path, encrypted_value |-> cs.encrypted_value,
     type |-> "secret", version |-> 1, tags |-> cs.tags]

\* the current row checkout, reset and merge insert for a CommitSecret
restored_secret(cs) ==
    [path |-> cs.path, encrypted_value |-> cs.encrypted_value,
     type |-> cs.type, version |-> 1, tags |-> cs.tags]

\* checkout_branch that deletes the SecretVersion rows with the current rows
checkout_branch_purging(branch_name) ==
    /\ call' = [NoCall EXCEPT !.op = "checkout_branch", !.branch = branch_name]
    /\ UNCHANGED <<branches, commits, commit_secrets, nonces>>
    /\ LET found == scalar_one_or_none(BranchRows(branch_name))
       IN  IF found # "one"
           THEN /\ ret' = [NoRet EXCEPT !.err = "Branch not found"]
                /\ UNCHANGED <<secrets, secret_versions>>
           ELSE LET head == HeadOf(branch_name)
                IN  /\ secrets' = IF head # NoHead
                                  THEN {restored_secret(cs) :
                                           cs \in SnapshotRows(head)}
                                  ELSE {}
                    /\ secret_versions' = << >>
                    /\ ret' = NoRet

checkout_branch(branch_name) ==
    /\ call' = [NoCall EXCEPT !.op = "checkout_branch", !.branch = branch_name]
    /\ UNCHANGED <<secret_versions, branches, commits, commit_secrets, nonces>>
    /\ LET found == scalar_one_or_none(BranchRows(branch_name))
       IN  IF found = "many"
           THEN /\ ret' = [NoRet EXCEPT !.err = "MultipleResultsFound"]
                /\ UNCHANGED secrets
           ELSE IF found = "none"
           THEN /\ ret' = [NoRet EXCEPT !.err = "Branch not found"]
                /\ UNCHANGED secrets
           ELSE LET head == HeadOf(branch_name)
                IN  /\ secrets' = IF head # NoHead
                                  THEN {restored_secret(cs) :
                                           cs \in SnapshotRows(head)}
                                  ELSE {}
                    /\ ret' = NoRet

\* reset_branch that leaves the head where it was
reset_branch_kept(branch, commit_id) == branch

\* the branch row after rollback_to_commit moved its head
reset_branch(branch, commit_id) ==
    [branch EXCEPT !.head_commit_id = commit_id]

rollback_to_commit(branch_name, commit_id) ==
    /\ call' = [NoCall EXCEPT !.op = "rollback_to_commit",
                              !.branch = branch_name, !.commit_id = commit_id]
    /\ UNCHANGED <<secret_versions, commits, commit_secrets, nonces>>
    /\ LET cfound == scalar_one_or_none(CommitRows(commit_id))
           found == scalar_one_or_none(BranchRows(branch_name))
       IN  IF cfound = "many" \/ (cfound = "one" /\ found = "many")
           THEN /\ ret' = [NoRet EXCEPT !.err = "MultipleResultsFound"]
                /\ UNCHANGED <<secrets, branches>>
           ELSE IF cfound = "none"
           THEN /\ ret' = [NoRet EXCEPT !.err = "Commit not found"]
                /\ UNCHANGED <<secrets, branches>>
           ELSE IF found = "none"
           THEN /\ ret' = [NoRet EXCEPT !.err = "Branch not found"]
                /\ UNCHANGED <<secrets, branches>>
           ELSE LET branch == TheRow(BranchRows(branch_name))
                IN  /\ branches' = (branches \ {branch}) \cup
                           {reset_branch(branch, commit_id)}
                    /\ secrets' = {restored_secret(cs) :
                                      cs \in SnapshotRows(commit_id)}
                    /\ ret' = NoRet

\* the MergeConflict for a path both snapshots hold
merge_conflict(path, target_cs, source_cs) ==
    [path |-> path,
     current_value |-> decrypt(target_cs.encrypted_value),
     incoming_value |-> decrypt(source_cs.encrypted_value)]

\* detect_conflicts that compares the decrypted values
detect_conflicts_by_value(target_secrets, source_secrets) ==
    {merge_conflict(p, RowAt(target_secrets, p), RowAt(source_secrets, p)) :
       p \in {q \in PathsOf(source_secrets) :
                /\ q \in PathsOf(target_secrets)
                /\ decrypt(RowAt(source_secrets, q).encrypted_value) #
                     decrypt(RowAt(target_secrets, q).encrypted_value)}}

\* the conflicts merge_branch detects between two snapshots
detect_conflicts(target_secrets, source_secrets) ==
    {merge_conflict(p, RowAt(target_secrets, p), RowAt(source_secrets, p)) :
       p \in {q \in PathsOf(source_secrets) :
                /\ q \in PathsOf(target_secrets)
                /\ RowAt(source_secrets, q).encrypted_value #
                     RowAt(target_secrets, q).encrypted_value}}

merge_branch(target_branch, source_branch) ==
    /\ call' = [NoCall EXCEPT !.op = "merge_branch", !.branch = target_branch,
                              !.source = source_branch]
    /\ UNCHANGED <<secret_versions, branches, commits, commit_secrets, nonces>>
    /\ LET tfound == scalar_one_or_none(BranchRows(target_branch))
           sfound == scalar_one_or_none(BranchRows(source_branch))
       IN  IF tfound = "many" \/ (tfound = "one" /\ sfound = "many")
           THEN /\ ret' = [NoRet EXCEPT !.err = "MultipleResultsFound"]
                /\ UNCHANGED secrets
           ELSE IF tfound = "none" \/ sfound = "none"
           THEN /\ ret' = [NoRet EXCEPT !.err = "Branch not found"]
                /\ UNCHANGED secrets
           ELSE IF HeadOf(source_branch) = NoHead
           THEN /\ ret' = [NoRet EXCEPT !.flag = TRUE]
                /\ UNCHANGED secrets
           ELSE LET target_secrets ==
                        IF HeadOf(target_branch) # NoHead
                        THEN SnapshotRows(HeadOf(target_branch)) ELSE {}
                    source_secrets == SnapshotRows(HeadOf(source_branch))
                    conflicts == detect_conflicts(target_secrets,
                                                  source_secrets)
                IN  IF conflicts # {}
                    THEN /\ ret' = [NoRet EXCEPT !.flag = FALSE,
                                                 !.conflicts = conflicts]
                         /\ UNCHANGED secrets
                    \* the flush at session.commit() emits the INSERTs of the
                    \* new rows before the DELETEs of the old ones, so a new
                    \* row whose path an old row still holds violates the
                    \* unique index on secrets.path
                    ELSE IF PathsOf(source_secrets) \cap PathsOf(secrets) # {}
                    THEN /\ ret' = [NoRet EXCEPT !.err = "IntegrityError"]
                         /\ UNCHANGED secrets
                    ELSE /\ secrets' = {restored_secret(cs) :
                                           cs \in source_secrets}
                         /\ ret' = [NoRet EXCEPT !.flag = TRUE]

(***************************************************************************)
(* Specification: every call of the storage interface, in any order        *)
(***************************************************************************)
SetSecret ==
    /\ nonces < MaxEnc
    /\ \E p \in Paths, v \in Values, k \in Kinds :
          set_secret(p, v, k[1], k[2])
    /\ UNCHANGED aux_vars

DeleteSecret ==
    /\ \E p \in Paths : delete_secret(p)
    /\ UNCHANGED aux_vars

Rollback ==
    /\ Len(secret_versions) < MaxHistory
    /\ \E p \in Paths, k \in 1..MaxHistory : rollback(p, k)
    /\ UNCHANGED aux_vars

CreateBranch ==
    /\ \E n \in BranchNames, f \in BranchNames \cup {""} : create_branch(n, f)
    /\ UNCHANGED aux_vars

DeleteBranch ==
    /\ \E n \in BranchNames : delete_branch(n)
    /\ UNCHANGED aux_vars

Commit ==
    /\ Cardinality(commits) < MaxCommits
    /\ \E b \in BranchNames : commit(b)
    /\ UNCHANGED aux_vars

CheckoutBranch ==
    /\ \E b \in BranchNames : checkout_branch(b)
    /\ UNCHANGED aux_vars

RollbackToCommit ==
    /\ \E b \in BranchNames, c \in 1..MaxCommits : rollback_to_commit(b, c)
    /\ UNCHANGED aux_vars

MergeBranch ==
    /\ \E t \in BranchNames, s \in BranchNames : merge_branch(t, s)
    /\ UNCHANGED aux_vars

Next ==
    \/ SetSecret
    \/ DeleteSecret
    \/ Rollback
    \/ CreateBranch
    \/ DeleteBranch
    \/ Commit
    \/ CheckoutBranch
    \/ RollbackToCommit
    \/ MergeBranch

Spec == Init /\ [][Next]_vars

(***************************************************************************)
(* Specification of the version-control layer: two commits, so that two    *)
(* branches can hold different snapshots, over plain values; branches are  *)
(* created and never deleted                                               *)
(***************************************************************************)
VcSetSecret ==
    /\ nonces < MaxEnc
    /\ \E p \in Paths, v \in VcValues : set_secret(p, v, "secret", << >>)
    /\ UNCHANGED aux_vars

VcCommit ==
    /\ Cardinality(commits) < MaxVcCommits
    /\ \E b \in BranchNames : commit(b)
    /\ UNCHANGED aux_vars

VcRollbackToCommit ==
    /\ \E b \in BranchNames, c \in 1..MaxVcCommits : rollback_to_commit(b, c)
    /\ UNCHANGED aux_vars

VcNext ==
    \/ VcSetSecret
    \/ DeleteSecret
    \/ CreateBranch
    \/ VcCommit
    \/ CheckoutBranch
    \/ VcRollbackToCommit
    \/ MergeBranch

SpecVC == Init /\ [][VcNext]_vars

(***************************************************************************)
(* Specification with a secret_type outside SecretType: set_secret takes   *)
(* the type as a plain string                                              *)
(***************************************************************************)
Types == {"secret", "password"}

TypedSetSecret ==
    /\ nonces < MaxEnc
    /\ \E p \in Paths, v \in VcValues, t \in Types :
          set_secret(p, v, t, << >>)
    /\ UNCHANGED aux_vars

TypedNext ==
    \/ TypedSetSecret
    \/ DeleteSecret
    \/ Rollback
    \/ CreateBranch
    \/ Commit
    \/ CheckoutBranch
    \/ RollbackToCommit
    \/ MergeBranch

SpecTyped == Init /\ [][TypedNext]_vars

(***************************************************************************)
(* set_secret by processes that share the database: the select and the     *)
(* commit of one call are two steps, and another process can commit        *)
(* between them                                                            *)
(***************************************************************************)
MaxSessionEnc == 4
SessionPaths == {"a"}

\* session_row that takes the version from the row as it is at the commit
session_row_reread(current, session) ==
    updated_secret(current, session.encrypted_value, session.tags)

\* the row the UPDATE of the flush writes: the columns of the object the
\* session loaded, with the changes made to it
session_row(current, session) ==
    updated_secret(session.existing, session.encrypted_value, session.tags)

\* set_secret up to the encryption: the session loads the current row
session_execute(pr, path, value, tags) ==
    /\ sessions[pr].state = "closed"
    /\ call' = [NoCall EXCEPT !.op = "set_secret", !.path = path,
                              !.value = value, !.type = "secret",
                              !.tags = tags]
    /\ UNCHANGED <<secrets, secret_versions, branches, commits,
                   commit_secrets>>
    /\ LET rows == SecretRows(path)
           found == scalar_one_or_none(rows)
       IN  IF found = "many"
           THEN /\ ret' = [NoRet EXCEPT !.err = "MultipleResultsFound"]
                /\ UNCHANGED <<sessions, nonces>>
           ELSE /\ ret' = NoRet
                /\ nonces' = nonces + 1
                /\ sessions' =
                      [sessions EXCEPT ![pr] =
                          [state |-> "open", path |-> path, value |-> value,
                           tags |-> tags,
                           encrypted_value |-> encrypt(value, nonces + 1),
                           found |-> found,
                           existing |-> IF found = "one" THEN TheRow(rows)
                                        ELSE NoSession.existing]]

\* set_secret from session.add on: the flush and the commit
session_commit(pr) ==
    /\ sessions[pr].state = "open"
    /\ sessions' = [sessions EXCEPT ![pr] = NoSession]
    /\ call' = [NoCall EXCEPT !.op = "set_secret",
                              !.path = sessions[pr].path,
                              !.value = sessions[pr].value,
                              !.type = "secret",
                              !.tags = sessions[pr].tags]
    /\ UNCHANGED <<branches, commits, commit_secrets, nonces>>
    /\ LET session == sessions[pr]
           rows == SecretRows(session.path)
       IN  IF session.found = "one"
           THEN IF rows = {}
                \* the UPDATE matches no row
                THEN /\ ret' = [NoRet EXCEPT !.err = "StaleDataError"]
                     /\ UNCHANGED <<secrets, secret_versions>>
                ELSE LET updated == session_row(TheRow(rows), session)
                     IN  /\ secret_versions' =
                                Append(secret_versions,
                                       version_record(session.existing))
                         /\ secrets' = (secrets \ rows) \cup {updated}
                         /\ ret' = [NoRet EXCEPT !.secret =
                                       SecretOf(updated, session.value,
                                                session.tags)]
           ELSE IF rows # {}
                \* the INSERT violates the unique index on secrets.path
                THEN /\ ret' = [NoRet EXCEPT !.err = "IntegrityError"]
                     /\ UNCHANGED <<secrets, secret_versions>>
                ELSE LET inserted == new_secret(session.path,
                                                session.encrypted_value,
                                                "secret", session.tags)
                     IN  /\ secrets' = secrets \cup {inserted}
                         /\ UNCHANGED secret_versions
                         /\ ret' = [NoRet EXCEPT !.secret =
                                       SecretOf(inserted, session.value,
                                                session.tags)]

(***************************************************************************)
(* Encryptor: strings are sequences of code points, bytes are 0..255       *)
(***************************************************************************)
MaxPlainLen == 2
KeyLen == 32
NonceLen == 12
TagLen == 16

\* A, e acute, the euro sign, an emoji outside the basic plane, and a lone
\* surrogate, which a str can hold and UTF-8 cannot encode
CodePoints == {65, 233, 8364, 128274, 55296}
Plaintexts == UNION {[1..n -> CodePoints] : n \in 0..MaxPlainLen}

\* two keys of 32 bytes and one of 16
MasterKeys ==
    {[i \in 1..KeyLen |-> 0], [i \in 1..KeyLen |-> (7 * i) % 256],
     [i \in 1..16 |-> 1]}

\* values of os.urandom(12)
Nonces ==
    {[i \in 1..NonceLen |-> 0], [i \in 1..NonceLen |-> 255],
     [i \in 1..NonceLen |-> (17 * i) % 256]}

Surrogates == 55296..57343

\* the bytes of one code point in UTF-8
utf8_bytes(cp) ==
    IF cp < 128 THEN <<cp>>
    ELSE IF cp < 2048 THEN <<192 + (cp \div 64), 128 + (cp % 64)>>
    ELSE IF cp < 65536
    THEN <<224 + (cp \div 4096), 128 + ((cp \div 64) % 64), 128 + (cp % 64)>>
    ELSE <<240 + (cp \div 262144), 128 + ((cp \div 4096) % 64),
           128 + ((cp \div 64) % 64), 128 + (cp % 64)>>

\* str.encode("utf-8"): byte k of the result is a byte of the code point
\* whose bytes span position k
utf8_encode(string) ==
    IF \E i \in 1..Len(string) : string[i] \in Surrogates
    THEN [err |-> "UnicodeEncodeError", value |-> << >>]
    ELSE LET width(i) == Len(utf8_bytes(string[i]))
             offset(i) ==
                 Cardinality({jb \in (1..(i - 1)) \X (1..4) :
                                 jb[2] <= width(jb[1])})
             total == offset(Len(string) + 1)
         IN  [err |-> "",
              value |->
                 IF total = 0 THEN << >>
                 ELSE [k \in 1..total |->
                          LET i == CHOOSE c \in 1..Len(string) :
                                      offset(c) < k /\ k <= offset(c) + width(c)
                          IN  utf8_bytes(string[i])[k - offset(i)]]]

\* continuation that keeps five bits of a continuation byte
continuation_5bit(b) == b % 32

\* the six payload bits of a continuation byte
continuation(b) == b % 64

\* the number of bytes the lead byte b announces, 0 for an invalid lead
utf8_length(b) ==
    IF b < 128 THEN 1
    ELSE IF b >= 194 /\ b <= 223 THEN 2
    ELSE IF b >= 224 /\ b <= 239 THEN 3
    ELSE IF b >= 240 /\ b <= 244 THEN 4
    ELSE 0

\* the code point of the first n bytes of data
utf8_code_point(data, n) ==
    IF n = 1 THEN data[1]
    ELSE IF n = 2 THEN (data[1] - 192) * 64 + continuation(data[2])
    ELSE IF n = 3
    THEN (data[1] - 224) * 4096 + continuation(data[2]) * 64
         + continuation(data[3])
    ELSE (data[1] - 240) * 262144 + continuation(data[2]) * 4096
         + continuation(data[3]) * 64 + continuation(data[4])

\* bytes.decode("utf-8"): every byte that is not a continuation byte
\* starts a code point; the bytes are well formed when each start is a
\* valid lead byte followed by its continuation bytes, no continuation
\* byte is left over, and no code point is overlong, a surrogate or
\* beyond U+10FFFF
utf8_decode(data) ==
    LET n == Len(data)
        is_continuation(b) == b >= 128 /\ b <= 191
        starts == {i \in 1..n : ~is_continuation(data[i])}
        width(i) == utf8_length(data[i])
        code_point(i) ==
            utf8_code_point(SubSeq(data, i, i + width(i) - 1), width(i))
        well_formed ==
            /\ \A i \in starts :
                  /\ width(i) > 0
                  /\ i + width(i) - 1 <= n
                  /\ \A j \in (i + 1)..(i + width(i) - 1) :
                        is_continuation(data[j])
                  /\ code_point(i) \notin Surrogates
                  /\ code_point(i) <= 1114111
                  /\ ~(width(i) = 3 /\ code_point(i) < 2048)
                  /\ ~(width(i) = 4 /\ code_point(i) < 65536)
            /\ \A j \in 1..n : is_continuation(data[j]) =>
                  \E i \in starts : i < j /\ j <= i + width(i) - 1
        start(k) == CHOOSE i \in starts :
                        Cardinality({c \in starts : c <= i}) = k
    IN  IF ~well_formed
        THEN [err |-> "UnicodeDecodeError", value |-> << >>]
        ELSE [err |-> "",
              value |-> IF starts = {} THEN << >>
                        ELSE [k \in 1..Cardinality(starts) |->
                                 code_point(start(k))]]

\* the character (as a code point) of a Base64 digit
b64_char(d) ==
    IF d < 26 THEN 65 + d
    ELSE IF d < 52 THEN 97 + (d - 26)
    ELSE IF d < 62 THEN 48 + (d - 52)
    ELSE IF d = 62 THEN 43
    ELSE 47

\* '='
b64_pad == 61

\* the Base64 digit of a character, -1 for a character outside the alphabet
b64_digit(c) ==
    IF c >= 65 /\ c <= 90 THEN c - 65
    ELSE IF c >= 97 /\ c <= 122 THEN c - 97 + 26
    ELSE IF c >= 48 /\ c <= 57 THEN c - 48 + 52
    ELSE IF c = 43 THEN 62
    ELSE IF c = 47 THEN 63
    ELSE -1

\* base64.b64encode
RECURSIVE b64encode(_)
b64encode(data) ==
    IF Len(data) = 0 THEN << >>
    ELSE IF Len(data) = 1
    THEN <<b64_char(data[1] \div 4), b64_char((data[1] % 4) * 16),
           b64_pad, b64_pad>>
    ELSE IF Len(data) = 2
    THEN <<b64_char(data[1] \div 4),
           b64_char((data[1] % 4) * 16 + (data[2] \div 16)),
           b64_char((data[2] % 16) * 4), b64_pad>>
    ELSE <<b64_char(data[1] \div 4),
           b64_char((data[1] % 4) * 16 + (data[2] \div 16)),
           b64_char((data[2] % 16) * 4 + (data[3] \div 64)),
           b64_char(data[3] % 64)>>
         \o b64encode(SubSeq(data, 4, Len(data)))

\* base64.b64decode of characters of the alphabet and the padding
RECURSIVE b64decode(_)
b64decode(chars) ==
    IF Len(chars) = 0 THEN [err |-> "", value |-> << >>]
    ELSE IF Len(chars) < 4 \/ chars[1] = b64_pad \/ chars[2] = b64_pad
    THEN [err |-> "binascii.Error", value |-> << >>]
    ELSE LET d1 == b64_digit(chars[1])
             d2 == b64_digit(chars[2])
             d3 == b64_digit(chars[3])
             d4 == b64_digit(chars[4])
         IN  IF chars[3] = b64_pad
             THEN IF chars[4] = b64_pad /\ Len(chars) = 4
                  THEN [err |-> "", value |-> <<d1 * 4 + (d2 \div 16)>>]
                  ELSE [err |-> "binascii.Error", value |-> << >>]
             ELSE IF chars[4] = b64_pad
             THEN IF Len(chars) = 4
                  THEN [err |-> "",
                        value |-> <<d1 * 4 + (d2 \div 16),
                                    (d2 % 16) * 16 + (d3 \div 4)>>]
                  ELSE [err |-> "binascii.Error", value |-> << >>]
             ELSE LET rest == b64decode(SubSeq(chars, 5, Len(chars)))
                  IN  IF rest.err # "" THEN rest
                      ELSE [err |-> "",
                            value |-> <<d1 * 4 + (d2 \div 16),
                                        (d2 % 16) * 16 + (d3 \div 4),
                                        (d3 % 4) * 64 + d4>> \o rest.value]

\* AES-GCM is a keyed stream cipher with an authentication tag: byte i of
\* the key stream under a key and a nonce
key_stream(key, nonce, i) ==
    (key[((i - 1) % KeyLen) + 1] + nonce[((i - 1) % NonceLen) + 1] + i) % 256

RECURSIVE Sum(_)
Sum(data) == IF Len(data) = 0 THEN 0 ELSE Head(data) + Sum(Tail(data))

\* the tag over the key, the nonce and the ciphertext
gcm_tag(key, nonce, data) ==
    [j \in 1..TagLen |->
        (Sum(data) + Sum(nonce) + key[j] + key[j + TagLen] + j) % 256]

\* AESGCM.encrypt(nonce, data, None): ciphertext followed by the tag
aesgcm_encrypt(key, nonce, data) ==
    LET ct == [i \in 1..Len(data) |->
                  (data[i] + key_stream(key, nonce, i)) % 256]
    IN  ct \o gcm_tag(key, nonce, ct)

\* AESGCM.decrypt(nonce, data, None)
aesgcm_decrypt(key, nonce, data) ==
    IF Len(data) < TagLen THEN [err |-> "InvalidTag", value |-> << >>]
    ELSE LET ct == SubSeq(data, 1, Len(data) - TagLen)
             tag == SubSeq(data, Len(data) - TagLen + 1, Len(data))
         IN  IF tag # gcm_tag(key, nonce, ct)
             THEN [err |-> "InvalidTag", value |-> << >>]
             ELSE [err |-> "",
                   value |-> [i \in 1..Len(ct) |->
                                 (ct[i] + 256 - key_stream(key, nonce, i))
                                    % 256]]

\* Encryptor.encrypt with the nonce os.urandom returned; any exception
\* becomes EncryptionError
Encryptor_encrypt(master_key, plaintext, nonce) ==
    LET plaintext_bytes == utf8_encode(plaintext)
    IN  IF plaintext_bytes.err # ""
        THEN [err |-> "EncryptionError", value |-> << >>]
        ELSE LET ciphertext == aesgcm_encrypt(master_key, nonce,
                                              plaintext_bytes.value)
                 combined == nonce \o ciphertext
                 text == utf8_decode(b64encode(combined))
             IN  IF text.err # ""
                 THEN [err |-> "EncryptionError", value |-> << >>]
                 ELSE text

\* Encryptor.decrypt; any exception becomes EncryptionError
Encryptor_decrypt(master_key, encrypted) ==
    LET failed == [err |-> "EncryptionError", value |-> << >>]
        encoded == utf8_encode(encrypted)
    IN  IF encoded.err # "" THEN failed
        ELSE LET combined ==
                     b64decode(SelectSeq(encoded.value,
                                  LAMBDA c : b64_digit(c) >= 0 \/ c = b64_pad))
             IN  IF combined.err # "" THEN failed
                 ELSE LET nonce == SubSeq(combined.value, 1, NonceLen)
                          ciphertext == SubSeq(combined.value, NonceLen + 1,
                                               Len(combined.value))
                          plaintext_bytes ==
                              aesgcm_decrypt(master_key, nonce, ciphertext)
                      IN  IF plaintext_bytes.err # "" THEN failed
                          ELSE LET text == utf8_decode(plaintext_bytes.value)
                               IN  IF text.err # "" THEN failed ELSE text

(***************************************************************************)
(* Audit log                                                               *)
(***************************************************************************)
MaxAudit == 2

AuditActions == {"get", "list", "set"}
AuditPaths == {"a", "a\nb"}

\* AuditEntry(action=..., path=..., success=...)
audit_entry(action, path, success) ==
    [action |-> action, path |-> path, success |-> success]

\* the characters of a JSON string: a line feed becomes the two characters
\* backslash and n
RECURSIVE json_string(_)
json_string(chars) ==
    IF chars = << >> THEN << >>
    ELSE (IF Head(chars) = "\n" THEN <<"\\", "n">> ELSE <<Head(chars)>>)
         \o json_string(Tail(chars))

\* json_dumps that writes the characters of a string as they are
json_dumps_raw(entry) ==
    <<entry.action>> \o Chars[entry.path] \o
    <<IF entry.success THEN "true" ELSE "false">>

\* json.dumps(entry.model_dump(), default=str)
json_dumps(entry) ==
    <<entry.action>> \o json_string(Chars[entry.path]) \o
    <<IF entry.success THEN "true" ELSE "false">>

\* the lines a text that ends in a line feed adds to a file
RECURSIVE lines_of(_, _)
lines_of(text, line) ==
    IF text = << >> THEN << >>
    ELSE IF Head(text) = "\n" THEN <<line>> \o lines_of(Tail(text), << >>)
    ELSE lines_of(Tail(text), Append(line, Head(text)))

\* open(self.log_path, "a"): the exception it raises, if any
open_append == IF log_writable THEN "" ELSE "PermissionError"

\* AuditLogger.log: the lines of the file afterwards and the exception that
\* reaches the caller
log(action, path, success) ==
    IF ~enabled THEN [lines |-> audit_log, err |-> ""]
    ELSE IF ~log_reads /\ action \in {"get", "list"}
    THEN [lines |-> audit_log, err |-> ""]
    ELSE LET entry == audit_entry(action, path, success)
         IN  IF open_append = ""
             THEN [lines |-> audit_log \o
                             lines_of(json_dumps(entry) \o <<"\n">>, << >>),
                   err |-> ""]
             \* except Exception: pass
             ELSE [lines |-> audit_log, err |-> ""]

(***************************************************************************)
(* Command line                                                            *)
(***************************************************************************)
MaxCliCommits == 1
CliPaths == {"a"}

\* the command that ran, what it was about and how it ended: "ok",
\* "failed" (an exception was caught), "exit" (sys.exit(1) before the
\* storage call or on its result), "cancelled", "noop", "running"
ran(command, path, outcome) ==
    [command |-> command, path |-> path, outcome |-> outcome, pc |-> ""]

result_of(err) == IF err = "" THEN "ok" ELSE "failed"

cli_frame == UNCHANGED <<enabled, log_reads, log_writable, sessions, cipher>>

init ==
    /\ cli.pc = ""
    /\ cli_frame
    /\ IF current_branch # ""
       THEN /\ cli' = ran("init", ".", "noop")
            /\ UNCHANGED <<store_vars, audit_log, current_branch>>
       ELSE /\ create_branch("main", "")
            /\ current_branch' = IF ret'.err = "" THEN "main"
                                 ELSE current_branch
            /\ audit_log' = log("init", ".", ret'.err = "").lines
            /\ cli' = ran("init", ".", result_of(ret'.err))

cli_set(path, value, secret_type) ==
    /\ cli.pc = ""
    /\ current_branch # ""
    /\ cli_frame
    /\ UNCHANGED current_branch
    /\ IF secret_type \notin ValidTypes
       THEN /\ cli' = ran("set", path, "exit")
            /\ UNCHANGED <<store_vars, audit_log>>
       ELSE /\ set_secret(path, value, secret_type, << >>)
            /\ audit_log' = log("set", path, ret'.err = "").lines
            /\ cli' = ran("set", path, result_of(ret'.err))

cli_delete(path, confirm) ==
    /\ cli.pc = ""
    /\ current_branch # ""
    /\ cli_frame
    /\ UNCHANGED current_branch
    /\ LET secret == get_secret(path)
       IN  IF secret.err # ""
           THEN /\ cli' = ran("delete", path, "failed")
                /\ audit_log' = log("delete", path, FALSE).lines
                /\ UNCHANGED store_vars
           ELSE IF ~secret.found
           THEN /\ cli' = ran("delete", path, "exit")
                /\ UNCHANGED <<store_vars, audit_log>>
           ELSE IF ~confirm
           THEN /\ cli' = ran("delete", path, "cancelled")
                /\ UNCHANGED <<store_vars, audit_log>>
           ELSE /\ delete_secret(path)
                /\ audit_log' = log("delete", path, ret'.err = "").lines
                /\ cli' = ran("delete", path, result_of(ret'.err))

cli_rollback(path, version, confirm) ==
    /\ cli.pc = ""
    /\ current_branch # ""
    /\ cli_frame
    /\ UNCHANGED current_branch
    /\ IF ~confirm
       THEN /\ cli' = ran("rollback", path, "cancelled")
            /\ UNCHANGED <<store_vars, audit_log>>
       ELSE /\ rollback(path, version)
            /\ audit_log' = log("rollback", path, ret'.err = "").lines
            /\ cli' = ran("rollback", path, result_of(ret'.err))

branch(name, delete, from_branch) ==
    /\ cli.pc = ""
    /\ current_branch # ""
    /\ cli_frame
    /\ UNCHANGED <<current_branch, audit_log>>
    /\ IF delete # ""
       THEN /\ delete_branch(delete)
            /\ cli' = ran("branch_delete", delete,
                          IF ret'.err # "" THEN "failed"
                          ELSE IF ret'.flag THEN "ok" ELSE "exit")
       ELSE IF name # ""
       THEN /\ create_branch(name, from_branch)
            /\ cli' = ran("branch_create", name, result_of(ret'.err))
       ELSE /\ cli' = ran("branch_show", "", "ok")
            /\ UNCHANGED store_vars

checkout(branch_name, confirm) ==
    /\ cli.pc = ""
    /\ current_branch # ""
    /\ cli_frame
    /\ UNCHANGED audit_log
    /\ LET found == scalar_one_or_none(BranchRows(branch_name))
       IN  IF found = "many"
           THEN /\ cli' = ran("checkout", branch_name, "failed")
                /\ UNCHANGED <<store_vars, current_branch>>
           ELSE IF found = "none"
           THEN /\ cli' = ran("checkout", branch_name, "exit")
                /\ UNCHANGED <<store_vars, current_branch>>
           ELSE IF ~confirm
           THEN /\ cli' = ran("checkout", branch_name, "cancelled")
                /\ UNCHANGED <<store_vars, current_branch>>
           ELSE /\ checkout_branch(branch_name)
                /\ current_branch' = IF ret'.err = "" THEN branch_name
                                     ELSE current_branch
                /\ cli' = ran("checkout", branch_name, result_of(ret'.err))

cli_commit ==
    /\ cli.pc = ""
    /\ current_branch # ""
    /\ cli_frame
    /\ UNCHANGED <<current_branch, audit_log>>
    /\ commit(current_branch)
    /\ cli' = ran("commit", current_branch, result_of(ret'.err))

reset(commit_id) ==
    /\ cli.pc = ""
    /\ current_branch # ""
    /\ cli_frame
    /\ UNCHANGED <<current_branch, audit_log>>
    /\ rollback_to_commit(current_branch, commit_id)
    /\ cli' = ran("reset", current_branch, result_of(ret'.err))

\* merge up to the result of storage.merge_branch
merge(source_branch, force) ==
    /\ cli.pc = ""
    /\ current_branch # ""
    /\ cli_frame
    /\ UNCHANGED <<current_branch, audit_log>>
    /\ IF current_branch = source_branch
       THEN /\ cli' = ran("merge", source_branch, "exit")
            /\ UNCHANGED store_vars
       ELSE /\ merge_branch(current_branch, source_branch)
            /\ cli' = IF ret'.err # ""
                      THEN ran("merge", source_branch, "failed")
                      ELSE IF ret'.conflicts # {} /\ ~force
                      THEN ran("merge", source_branch, "exit")
                      ELSE IF ret'.flag
                      THEN [ran("merge", source_branch, "running")
                               EXCEPT !.pc = "merge_commit"]
                      ELSE ran("merge", source_branch, "exit")

\* merge from the merge commit on
merge_commit ==
    /\ cli.pc = "merge_commit"
    /\ cli_frame
    /\ UNCHANGED <<current_branch, audit_log>>
    /\ commit(current_branch)
    /\ cli' = ran("merge", cli.path, result_of(ret'.err))

(***************************************************************************)
(* Specification of the working store over paths that hold a wildcard      *)
(* character or differ in case                                             *)
(***************************************************************************)
ListSetSecret ==
    /\ nonces < MaxEnc
    /\ \E p \in ListPaths, v \in VcValues :
          set_secret(p, v, "secret", << >>)
    /\ UNCHANGED aux_vars

ListDeleteSecret ==
    /\ \E p \in ListPaths : delete_secret(p)
    /\ UNCHANGED aux_vars

ListNext ==
    \/ ListSetSecret
    \/ ListDeleteSecret

SpecList == Init /\ [][ListNext]_vars

(***************************************************************************)
(* Specification of the audit logger: any configuration, a log file that   *)
(* can or cannot be written, paths with and without a line feed            *)
(***************************************************************************)
AuditInit ==
    /\ secrets = {}
    /\ secret_versions = << >>
    /\ branches = {}
    /\ commits = {}
    /\ commit_secrets = {}
    /\ nonces = 0
    /\ call = NoCall
    /\ ret = NoRet
    /\ audit_log = << >>
    /\ enabled \in BOOLEAN
    /\ log_reads \in BOOLEAN
    /\ log_writable \in BOOLEAN
    /\ current_branch = ""
    /\ cli = NoCommand
    /\ sessions = [pr \in Procs |-> NoSession]
    /\ cipher = NoCipher

Log ==
    /\ Len(audit_log) < MaxAudit
    /\ \E action \in AuditActions, path \in AuditPaths, success \in BOOLEAN :
          LET logged == log(action, path, success)
          IN  /\ audit_log' = logged.lines
              /\ cli' = ran(action, path,
                            IF logged.err = "" THEN "returned" ELSE "raised")
    /\ UNCHANGED <<store_vars, enabled, log_reads, log_writable,
                   current_branch, sessions, cipher>>

AuditNext == Log

SpecAudit == AuditInit /\ [][AuditNext]_vars

(***************************************************************************)
(* Specification of the command line over one path, with auditing enabled  *)
(***************************************************************************)
CliInit == init

CliSet ==
    /\ nonces < MaxEnc
    /\ Len(audit_log) < MaxAudit
    /\ \E p \in CliPaths, v \in VcValues, t \in Types : cli_set(p, v, t)

CliDelete ==
    /\ Len(audit_log) < MaxAudit
    /\ \E p \in CliPaths, confirm \in BOOLEAN : cli_delete(p, confirm)

CliRollback ==
    /\ Len(audit_log) < MaxAudit
    /\ Len(secret_versions) < MaxHistory
    /\ \E p \in CliPaths, k \in 1..MaxHistory, confirm \in BOOLEAN :
          cli_rollback(p, k, confirm)

CliBranch ==
    \E name \in BranchNames \cup {""}, delete \in BranchNames \cup {""},
       from_branch \in BranchNames \cup {""} :
          branch(name, delete, from_branch)

CliCheckout ==
    \E b \in BranchNames, confirm \in BOOLEAN : checkout(b, confirm)

CliCommit ==
    /\ Cardinality(commits) < MaxCliCommits
    /\ cli_commit

CliReset == \E c \in 1..MaxCliCommits : reset(c)

CliMerge ==
    /\ Cardinality(commits) < MaxCliCommits
    /\ \E s \in BranchNames, force \in BOOLEAN : merge(s, force)

CliMergeCommit == merge_commit

CliNext ==
    \/ CliInit
    \/ CliSet
    \/ CliDelete
    \/ CliRollback
    \/ CliBranch
    \/ CliCheckout
    \/ CliCommit
    \/ CliReset
    \/ CliMerge
    \/ CliMergeCommit

SpecCli == Init /\ [][CliNext]_vars

(***************************************************************************)
(* Specification of two processes that call set_secret on one database     *)
(***************************************************************************)
SessionExecute ==
    /\ nonces < MaxSessionEnc
    /\ \E pr \in Procs, p \in SessionPaths, v \in VcValues :
          session_execute(pr, p, v, << >>)
    /\ UNCHANGED <<audit_log, enabled, log_reads, log_writable,
                   current_branch, cli, cipher>>

SessionCommit ==
    /\ \E pr \in Procs : session_commit(pr)
    /\ UNCHANGED <<audit_log, enabled, log_reads, log_writable,
                   current_branch, cli, cipher>>

SessionNext ==
    \/ SessionExecute
    \/ SessionCommit

SpecSessions == Init /\ [][SessionNext]_vars

(***************************************************************************)
(* Specification of one Encryptor: a key and a plaintext are drawn, the    *)
(* Encryptor is built, encrypts the plaintext and decrypts the result      *)
(***************************************************************************)
CipherInit ==
    /\ secrets = {}
    /\ secret_versions = << >>
    /\ branches = {}
    /\ commits = {}
    /\ commit_secrets = {}
    /\ nonces = 0
    /\ call = NoCall
    /\ ret = NoRet
    /\ audit_log = << >>
    /\ enabled = TRUE
    /\ log_reads = FALSE
    /\ log_writable = TRUE
    /\ current_branch = ""
    /\ cli = NoCommand
    /\ sessions = [pr \in Procs |-> NoSession]
    /\ cipher \in {[NoCipher EXCEPT !.step = "new", !.key = k,
                                    !.plaintext = v] :
                      k \in MasterKeys, v \in Plaintexts}

cipher_frame ==
    UNCHANGED <<store_vars, audit_log, enabled, log_reads, log_writable,
                current_branch, cli, sessions>>

\* Encryptor(master_key)
NewEncryptor ==
    /\ cipher.step = "new"
    /\ cipher' = IF Len(cipher.key) # KeyLen
                 THEN [cipher EXCEPT !.step = "rejected",
                                     !.err = "EncryptionError"]
                 ELSE [cipher EXCEPT !.step = "ready"]
    /\ cipher_frame

Encrypt ==
    /\ cipher.step = "ready"
    /\ \E nonce \in Nonces :
          LET encrypted == Encryptor_encrypt(cipher.key, cipher.plaintext,
                                             nonce)
          IN  cipher' = IF encrypted.err # ""
                        THEN [cipher EXCEPT !.step = "failed",
                                            !.err = encrypted.err]
                        ELSE [cipher EXCEPT !.step = "encrypted",
                                            !.encrypted = encrypted.value]
    /\ cipher_frame

Decrypt ==
    /\ cipher.step = "encrypted"
    /\ LET decrypted == Encryptor_decrypt(cipher.key, cipher.encrypted)
       IN  cipher' = IF decrypted.err # ""
                     THEN [cipher EXCEPT !.step = "failed",
                                         !.err = decrypted.err]
                     ELSE [cipher EXCEPT !.step = "decrypted",
                                         !.decrypted = decrypted.value]
    /\ cipher_frame

CipherNext ==
    \/ NewEncryptor
    \/ Encrypt
    \/ Decrypt

SpecCipher == CipherInit /\ [][CipherNext]_vars

(***************************************************************************)
(* Properties                                                              *)
(***************************************************************************)
RowsIn(S, p) == {r \in S : r.path = p}
OtherRowsIn(S, p) == {r \in S : r.path # p}
RowsNamed(B, n) == {b \in B : b.name = n}
IdxIn(V, p) == {i \in 1..Len(V) : V[i].path = p}
HasRefToCurrent(value) ==
    \E i \in 1..Len(value) :
        value[i].kind = "ref" /\ SecretRows(value[i].s) # {}

\* C1 (as stated): after a successful set_secret(p, v), get_secret(p)
\* returns a Secret with value v and the version set_secret returned.
C1_SetThenGet ==
    (call.op = "set_secret" /\ ret.err = "") =>
        LET got == get_secret(call.path)
        IN  /\ got.found /\ got.err = ""
            /\ got.value = call.value
            /\ got.version = ret.secret.version

\* C1 (amended): after a successful set_secret(p, v) where v holds no
\* ${name} reference to a path that has a current row, get_secret(p) returns
\* a Secret with value v and the version set_secret returned.
C1_SetThenGetUnreferenced ==
    (call.op = "set_secret" /\ ret.err = "" /\ ~HasRefToCurrent(call.value)) =>
        LET got == get_secret(call.path)
        IN  /\ got.found /\ got.err = ""
            /\ got.value = call.value
            /\ got.version = ret.secret.version

\* a set_secret of a value with an unresolved reference, on an existing
\* path while another secret is stored, read back unchanged
C1_Witness ==
    /\ call.op = "set_secret" /\ ret.err = ""
    /\ ~HasRefToCurrent(call.value)
    /\ \E i \in 1..Len(call.value) : call.value[i].kind = "ref"
    /\ ret.secret.version = 2
    /\ get_secret(call.path).value = call.value

\* C2: for every path with a current row, the current version together
\* with the versions of its SecretVersion rows is 1..N, each once.
C2_VersionsContiguous ==
    \A p \in Paths :
        SecretRows(p) # {} =>
            LET n == 1 + Cardinality(VersionIdx(p))
                count(k) ==
                    Cardinality({r \in SecretRows(p) : r.version = k})
                    + Cardinality({i \in VersionIdx(p) :
                                      secret_versions[i].version = k})
            IN  \A k \in 1..n : count(k) = 1

\* C3: set_secret on a path without a current row inserts the row at
\* version 1 and no history row; on a path with current row (n, c) it
\* appends exactly the history row (p, c, n), moves the current row to
\* version n + 1 with an encryption of v, and touches no other path.
C3_SetSecretEffect ==
    [][ call'.op = "set_secret" =>
          LET p == call'.path
              old == RowsIn(secrets, p)
              new == RowsIn(secrets', p)
          IN  /\ OtherRowsIn(secrets', p) = OtherRowsIn(secrets, p)
              /\ Cardinality(new) = 1
              /\ \A r \in new : decrypt(r.encrypted_value) = call'.value
              /\ IF old = {}
                 THEN /\ \A r \in new : r.version = 1
                      /\ secret_versions' = secret_versions
                 ELSE \A o \in old :
                      /\ \A r \in new : /\ r.version = o.version + 1
                                        /\ r.encrypted_value # o.encrypted_value
                      /\ secret_versions' =
                           Append(secret_versions,
                                  [path |-> p,
                                   encrypted_value |-> o.encrypted_value,
                                   version |-> o.version])
    ]_vars

\* a set_secret that updated an existing row
C3_Witness ==
    /\ call.op = "set_secret"
    /\ \E r \in SecretRows(call.path) : r.version = 2
    /\ \E i \in VersionIdx(call.path) : secret_versions[i].version = 1

\* C4: get_history(p) is the current row followed by p's SecretVersion
\* rows, versions strictly descending, each entry with the plaintext of
\* its row; it is empty for a path without a current row.
C4_HistoryNewestFirst ==
    \A p \in Paths : \A h \in get_history(p) :
        IF SecretRows(p) = {} THEN h = << >>
        ELSE /\ Len(h) = 1 + Cardinality(VersionIdx(p))
             /\ \E r \in SecretRows(p) :
                   /\ h[1].version = r.version
                   /\ h[1].value = decrypt(r.encrypted_value)
             /\ \A i \in 2..Len(h) : \E j \in VersionIdx(p) :
                   /\ h[i].version = secret_versions[j].version
                   /\ h[i].value = decrypt(secret_versions[j].encrypted_value)
             /\ \A i \in 1..(Len(h) - 1) : h[i].version > h[i + 1].version

\* the SecretVersion rows (by index) of table V at (p, k)
IdxAt(V, p, k) == {i \in IdxIn(V, p) : V[i].version = k}

\* C5: rollback(p, k), when p has a current row (n, c) and a SecretVersion
\* row (p, k) exists, succeeds; afterwards get_secret(p) returns the
\* plaintext of history version k, the current version is n + 1 and
\* (p, c, n) is a SecretVersion row.
C5_RollbackRestores ==
    [][ ( /\ call'.op = "rollback"
          /\ RowsIn(secrets, call'.path) # {}
          /\ IdxAt(secret_versions, call'.path, call'.version) # {} ) =>
          LET p == call'.path
              got == GetSecretIn(secrets', p, MaxDepth)
          IN  /\ ret'.err = ""
              /\ got.found
              /\ \E i \in IdxAt(secret_versions, p, call'.version) :
                    got.value = decrypt(secret_versions[i].encrypted_value)
              /\ \A o \in RowsIn(secrets, p) :
                    /\ got.version = o.version + 1
                    /\ \E j \in 1..Len(secret_versions') :
                          secret_versions'[j] =
                              [path |-> p,
                               encrypted_value |-> o.encrypted_value,
                               version |-> o.version]
    ]_vars

\* C6: rollback(p, k) without a SecretVersion row (p, k) fails with
\* 'Version {k} not found for {p}' and changes no current or history row.
C6_RollbackMissingVersion ==
    [][ ( /\ call'.op = "rollback"
          /\ IdxAt(secret_versions, call'.path, call'.version) = {} ) =>
          /\ ret'.err = "Version not found"
          /\ secrets' = secrets
          /\ secret_versions' = secret_versions
    ]_vars

\* a failed rollback to the version the current row has
C6_Witness ==
    /\ call.op = "rollback"
    /\ ret.err = "Version not found"
    /\ \E r \in SecretRows(call.path) : r.version = call.version
    /\ VersionIdx(call.path) # {}

\* C7: delete_secret(p) returns true exactly when p had a current row;
\* afterwards get_secret(p) is absent, get_history(p) is empty, no
\* SecretVersion row of p remains and the rows of other paths are as before.
C7_DeleteRemovesAll ==
    [][ call'.op = "delete_secret" =>
          LET p == call'.path
          IN  /\ ret'.err = ""
              /\ ret'.flag = (RowsIn(secrets, p) # {})
              /\ ~GetSecretIn(secrets', p, MaxDepth).found
              /\ GetHistoryIn(secrets', secret_versions', p) = { << >> }
              /\ IdxIn(secret_versions', p) = {}
              /\ OtherRowsIn(secrets', p) = OtherRowsIn(secrets, p)
              /\ SeqWithout(secret_versions', p) = SeqWithout(secret_versions, p)
    ]_vars

AllEmpty(st) ==
    st.err = "" /\ st.added = {} /\ st.modified = {} /\ st.deleted = {}

\* C8: right after a successful commit(b), get_status(b) reports empty
\* added, modified and deleted lists.
C8_CleanAfterCommit ==
    (call.op = "commit" /\ ret.err = "") => AllEmpty(get_status(call.branch))

\* a second commit on a branch, of a working set that is not empty
C8_Witness ==
    /\ call.op = "commit" /\ ret.err = ""
    /\ secrets # {}
    /\ \E k \in commits : k.id = ret.commit_id /\ k.parent_id # NoHead

\* C9: right after checkout_branch(b) of an existing branch the working
\* set holds one version-1 row per CommitSecret of b's head, with its
\* path, ciphertext, type and tags, and nothing else (nothing at all when
\* b has no head); get_status(b) is all-empty.
C9_CheckoutRestoresHead ==
    (call.op = "checkout_branch" /\ ret.err = "") =>
        LET heads == {b.head_commit_id : b \in BranchRows(call.branch)}
            snap == {cs \in commit_secrets : cs.commit_id \in heads}
        IN  /\ Cardinality(heads) = 1
            /\ Cardinality(secrets) = Cardinality(snap)
            /\ \A cs \in snap : \E r \in secrets :
                  /\ r.path = cs.path
                  /\ r.encrypted_value = cs.encrypted_value
                  /\ r.type = cs.type
                  /\ r.tags = cs.tags
                  /\ r.version = 1
            /\ (heads = {NoHead} => secrets = {})
            /\ AllEmpty(get_status(call.branch))

\* a checkout that restored a config row with tags over a changed working
\* set
C9_Witness ==
    /\ call.op = "checkout_branch" /\ ret.err = ""
    /\ \E r \in secrets :
          /\ r.type = "config"
          /\ r.tags = <<"prod">>
          /\ VersionIdx(r.path) # {}

\* the paths two snapshots both hold with differing ciphertext
Differing(tsnap, ssnap) ==
    {p \in Paths : \E a \in tsnap, b \in ssnap :
        a.path = p /\ b.path = p /\ a.encrypted_value # b.encrypted_value}

\* C10: merge_branch(t, s) returns (false, C) exactly when a path is in
\* both head snapshots with differing ciphertext; C is one MergeConflict
\* per such path with the decrypted values of t's and s's snapshot, and
\* the call changes no row of any table.
C10_MergeConflicts ==
    [][ call'.op = "merge_branch" =>
          LET theads == {b.head_commit_id :
                            b \in RowsNamed(branches, call'.branch)}
              sheads == {b.head_commit_id :
                            b \in RowsNamed(branches, call'.source)}
              tsnap == {cs \in commit_secrets : cs.commit_id \in theads}
              ssnap == {cs \in commit_secrets : cs.commit_id \in sheads}
              refused == ret'.err = "" /\ ~ret'.flag
          IN  /\ refused <=> (Differing(tsnap, ssnap) # {})
              /\ refused =>
                   /\ Cardinality(ret'.conflicts) =
                        Cardinality(Differing(tsnap, ssnap))
                   /\ \A p \in Differing(tsnap, ssnap) :
                        \E c \in ret'.conflicts, a \in tsnap, b \in ssnap :
                           /\ c.path = p /\ a.path = p /\ b.path = p
                           /\ c.current_value = decrypt(a.encrypted_value)
                           /\ c.incoming_value = decrypt(b.encrypted_value)
                   /\ UNCHANGED <<secrets, secret_versions, branches,
                                  commits, commit_secrets>>
    ]_vars

\* a refused merge whose conflict holds two different plaintexts
C10_Witness ==
    /\ call.op = "merge_branch"
    /\ ret.err = "" /\ ~ret.flag
    /\ \E c \in ret.conflicts : c.current_value # c.incoming_value

\* the head snapshot of the branch named n among the branches B
HeadSnapshot(B, n) ==
    {cs \in commit_secrets :
        \E b \in RowsNamed(B, n) : cs.commit_id = b.head_commit_id}

\* C11: when merge_branch(t, s) finds no conflict and s has a head, the
\* call succeeds and the working set afterwards is the union of the head
\* snapshots of t and s, with s's row for a path in both; every path of
\* t's head snapshot is still a current row.
C11_MergeIsUnion ==
    [][ ( /\ call'.op = "merge_branch"
          /\ RowsNamed(branches, call'.branch) # {}
          /\ \E b \in RowsNamed(branches, call'.source) :
                b.head_commit_id # NoHead
          /\ Differing(HeadSnapshot(branches, call'.branch),
                       HeadSnapshot(branches, call'.source)) = {} ) =>
          LET tsnap == HeadSnapshot(branches, call'.branch)
              ssnap == HeadSnapshot(branches, call'.source)
              union == ssnap \cup
                       {cs \in tsnap : cs.path \notin PathsOf(ssnap)}
          IN  /\ ret'.err = "" /\ ret'.flag
              /\ PathsOf(secrets') = PathsOf(union)
              /\ \A cs \in union : \E r \in secrets' :
                    /\ r.path = cs.path
                    /\ r.encrypted_value = cs.encrypted_value
              /\ PathsOf(tsnap) \subseteq PathsOf(secrets')
    ]_vars

\* C12: a merge_branch(t, s) that returned (true, []) and is repeated at
\* once returns (true, []) again and changes no current row, history row,
\* branch, commit or snapshot.
C12_MergeIdempotent ==
    [][ ( /\ call.op = "merge_branch"
          /\ ret.err = "" /\ ret.flag /\ ret.conflicts = {}
          /\ call'.op = "merge_branch"
          /\ call'.branch = call.branch
          /\ call'.source = call.source ) =>
          /\ ret'.err = "" /\ ret'.flag /\ ret'.conflicts = {}
          /\ UNCHANGED <<secrets, secret_versions, branches, commits,
                         commit_secrets>>
    ]_vars

\* the rows of B of branches not named n
OtherBranches(B, n) == {b \in B : b.name # n}

\* the working set S holds exactly one row per CommitSecret of snap, with
\* its path, ciphertext, type and tags
MatchesSnapshot(S, snap) ==
    /\ Cardinality(S) = Cardinality(snap)
    /\ PathsOf(S) = PathsOf(snap)
    /\ \A cs \in snap : \E r \in S :
          /\ r.path = cs.path
          /\ r.encrypted_value = cs.encrypted_value
          /\ r.type = cs.type
          /\ r.tags = cs.tags

\* C13: commit(b) on an existing branch adds exactly one commit, with
\* parent_id b's previous head and an id above every existing id, adds one
\* CommitSecret per current row with ciphertext, type and tags copied,
\* moves b's head to the new id, and changes neither the working set, the
\* history rows nor another branch.
C13_CommitEffect ==
    [][ ( /\ call'.op = "commit"
          /\ RowsNamed(branches, call'.branch) # {} ) =>
          \E k \in commits' \ commits :
              /\ commits' = commits \cup {k}
              /\ ret'.err = "" /\ ret'.commit_id = k.id
              /\ \A b \in RowsNamed(branches, call'.branch) :
                    k.parent_id = b.head_commit_id
              /\ \A o \in commits : k.id > o.id
              /\ commit_secrets \subseteq commit_secrets'
              /\ \A cs \in commit_secrets' \ commit_secrets :
                    cs.commit_id = k.id
              /\ MatchesSnapshot(secrets, commit_secrets' \ commit_secrets)
              /\ RowsNamed(branches', call'.branch) # {}
              /\ \A b \in RowsNamed(branches', call'.branch) :
                    b.head_commit_id = k.id
              /\ OtherBranches(branches', call'.branch) =
                    OtherBranches(branches, call'.branch)
              /\ secrets' = secrets
              /\ secret_versions' = secret_versions
    ]_vars

\* a second commit on a branch, of a working set of one row, while another
\* branch points elsewhere
C13_Witness ==
    /\ call.op = "commit" /\ ret.err = ""
    /\ \E k \in commits :
          /\ k.id = ret.commit_id
          /\ k.parent_id # NoHead
          /\ SnapshotRows(k.id) # {}
    /\ \E b \in OtherBranches(branches, call.branch) :
          b.head_commit_id # ret.commit_id

\* C14: rollback_to_commit(b, c) for an existing branch and an existing
\* commit sets b's head to c, replaces the working set by c's snapshot so
\* that get_status(b) is all-empty, and changes no other branch; a
\* commit(b) that follows gets parent_id c.
C14_ResetToCommit ==
    [][ /\ ( /\ call'.op = "rollback_to_commit"
             /\ RowsNamed(branches, call'.branch) # {}
             /\ \E k \in commits : k.id = call'.commit_id ) =>
             /\ ret'.err = ""
             /\ RowsNamed(branches', call'.branch) # {}
             /\ \A b \in RowsNamed(branches', call'.branch) :
                   b.head_commit_id = call'.commit_id
             /\ OtherBranches(branches', call'.branch) =
                   OtherBranches(branches, call'.branch)
             /\ MatchesSnapshot(secrets',
                   {cs \in commit_secrets : cs.commit_id = call'.commit_id})
             /\ \A r \in secrets' : r.version = 1
             /\ AllEmpty(GetStatusIn(secrets', branches', commit_secrets',
                                     call'.branch))
        /\ ( /\ call.op = "rollback_to_commit" /\ ret.err = ""
             /\ call'.op = "commit" /\ ret'.err = ""
             /\ call'.branch = call.branch ) =>
             \A k \in commits' \ commits : k.parent_id = call.commit_id
    ]_vars

\* a reset of a branch to a commit made on the other branch, which brings
\* back a row
C14_Witness ==
    /\ call.op = "rollback_to_commit" /\ ret.err = ""
    /\ \E k \in commits : k.id = call.commit_id /\ k.branch # call.branch
    /\ secrets # {}
    /\ \E b \in OtherBranches(branches, call.branch) :
          b.head_commit_id # call.commit_id

\* C15: for a branch with a head, get_status gives added = the working
\* paths missing from the head snapshot, deleted = the snapshot paths
\* missing from the working set, modified = the paths in both with
\* differing ciphertext, the three pairwise disjoint and free of paths in
\* both with equal ciphertext; for a branch without a head, added is every
\* working path and the other two are empty.
C15_StatusSets ==
    \A n \in BranchNames : \A b \in BranchRows(n) :
        LET st == get_status(n)
            snap == {cs \in commit_secrets : cs.commit_id = b.head_commit_id}
            both == {p \in Paths : /\ \E r \in secrets : r.path = p
                                   /\ \E cs \in snap : cs.path = p}
            same == {p \in both : \E r \in secrets, cs \in snap :
                        /\ r.path = p /\ cs.path = p
                        /\ r.encrypted_value = cs.encrypted_value}
        IN  /\ st.err = ""
            /\ IF b.head_commit_id = NoHead
               THEN /\ st.added = {r.path : r \in secrets}
                    /\ st.modified = {}
                    /\ st.deleted = {}
               ELSE /\ st.added = {r.path : r \in secrets} \ both
                    /\ st.deleted = {cs.path : cs \in snap} \ both
                    /\ st.modified = both \ same
                    /\ st.added \cap st.modified = {}
                    /\ st.added \cap st.deleted = {}
                    /\ st.modified \cap st.deleted = {}
                    /\ same \cap (st.added \cup st.modified \cup st.deleted)
                         = {}

\* one working set that is an addition for one branch and a modification,
\* of a value set again to the same plaintext, for the other
C15_Witness ==
    \E n \in BranchNames, m \in BranchNames :
        /\ BranchRows(n) # {} /\ BranchRows(m) # {}
        /\ HeadOf(n) # NoHead /\ HeadOf(m) # NoHead
        /\ get_status(n).added # {}
        /\ \E p \in get_status(m).modified :
              \E r \in secrets, cs \in SnapshotRows(HeadOf(m)) :
                 /\ r.path = p /\ cs.path = p
                 /\ decrypt(r.encrypted_value) = decrypt(cs.encrypted_value)

\* C16: from a state where get_status(b) is all-empty, a successful
\* set_secret(p, v) makes get_status(b) list p as added or modified, and a
\* delete_secret of an existing path makes get_status(b) list it as
\* deleted.
C16_ChangeShowsInStatus ==
    [][ \A b \in BranchNames :
          AllEmpty(get_status(b)) =>
            LET after == GetStatusIn(secrets', branches', commit_secrets', b)
            IN  /\ (call'.op = "set_secret" /\ ret'.err = "") =>
                      call'.path \in after.added \cup after.modified
                /\ (call'.op = "delete_secret" /\ ret'.err = "" /\ ret'.flag) =>
                      call'.path \in after.deleted
    ]_vars

\* a set_secret of the plaintext the only committed row already held,
\* listed as modified
C16_Witness ==
    /\ call.op = "set_secret" /\ ret.err = ""
    /\ \E b \in branches :
          /\ b.head_commit_id # NoHead
          /\ PathsOf(secrets) = {call.path}
          /\ PathsOf(SnapshotRows(b.head_commit_id)) = {call.path}
          /\ \E cs \in SnapshotRows(b.head_commit_id) :
                /\ decrypt(cs.encrypted_value) = call.value
                /\ \E i \in VersionIdx(call.path) :
                      secret_versions[i].encrypted_value = cs.encrypted_value
          /\ call.path \in get_status(b.name).modified

\* the paths the diff d lists with a status
DiffPaths(d, status) == {e.path : e \in {x \in d : x.status = status}}

\* C17: diff_commits(a, b) lists a path as added when only snapshot b has
\* it, deleted when only snapshot a has it, modified when both have it with
\* different ciphertext, with old_value and new_value the decrypted values
\* of a and b; diff_commits(a, a) is empty; the added paths of (a, b) are
\* the deleted paths of (b, a) and the modified paths of both coincide.
C17_DiffCommits ==
    \A a \in CommitIds, b \in CommitIds :
        LET d == diff_commits(a, b).entries
            r == diff_commits(b, a).entries
            sa == {cs \in commit_secrets : cs.commit_id = a}
            sb == {cs \in commit_secrets : cs.commit_id = b}
            pa == {cs.path : cs \in sa}
            pb == {cs.path : cs \in sb}
        IN  /\ DiffPaths(d, "added") = pb \ pa
            /\ DiffPaths(d, "deleted") = pa \ pb
            /\ DiffPaths(d, "modified") =
                  {p \in pa \cap pb : \E x \in sa, y \in sb :
                      /\ x.path = p /\ y.path = p
                      /\ x.encrypted_value # y.encrypted_value}
            /\ Cardinality(d) =
                  Cardinality(DiffPaths(d, "added") \cup
                              DiffPaths(d, "deleted") \cup
                              DiffPaths(d, "modified"))
            /\ \A e \in d :
                  /\ e.status \in {"added", "deleted", "modified"}
                  /\ IF e.status = "added" THEN e.old_value = NoValue
                     ELSE \E x \in sa : /\ x.path = e.path
                                        /\ e.old_value =
                                             decrypt(x.encrypted_value)
                  /\ IF e.status = "deleted" THEN e.new_value = NoValue
                     ELSE \E y \in sb : /\ y.path = e.path
                                        /\ e.new_value =
                                             decrypt(y.encrypted_value)
            /\ diff_commits(a, a).entries = {}
            /\ DiffPaths(d, "added") = DiffPaths(r, "deleted")
            /\ DiffPaths(d, "modified") = DiffPaths(r, "modified")

\* two commits of which the second lacks a path of the first and holds a
\* path the first lacks
C17_Witness ==
    /\ diff_commits(1, 2).err = ""
    /\ \E e \in diff_commits(1, 2).entries : e.status = "deleted"
    /\ \E e \in diff_commits(1, 2).entries : e.status = "added"

\* C18: get_commit_history(b, limit) returns min(limit, length of the
\* parent chain from b's head) commits, b's head first and each next one
\* the parent of the one before, so with strictly decreasing ids; it is
\* empty when b has no head.
C18_CommitHistory ==
    \A n \in BranchNames, limit \in Limits : \A b \in BranchRows(n) :
        LET got == get_commit_history(n, limit)
            h == got.commits
        IN  /\ got.err = ""
            /\ Len(h) <= limit
            /\ (b.head_commit_id = NoHead) => h = << >>
            /\ (b.head_commit_id # NoHead /\ limit > 0) =>
                  /\ Len(h) >= 1
                  /\ h[1].id = b.head_commit_id
            /\ \A i \in 1..Len(h) : h[i] \in commits
            /\ \A i \in 1..(Len(h) - 1) :
                  /\ h[i + 1].id = h[i].parent_id
                  /\ h[i + 1].id < h[i].id
            /\ (Len(h) >= 1 /\ Len(h) < limit) =>
                  h[Len(h)].parent_id = NoHead

\* a chain of two commits, cut to one by the limit
C18_Witness ==
    \E n \in BranchNames :
        /\ BranchRows(n) # {}
        /\ Len(get_commit_history(n, 1).commits) = 1
        /\ Len(get_commit_history(n, MaxVcCommits + 1).commits) = 2

\* C19: a set_secret, rollback, commit, checkout_branch,
\* rollback_to_commit or merge_branch that ends by raising an error leaves
\* current rows, history rows, branches, commits and snapshots as they
\* were before the call.
C19_ErrorLeavesStore ==
    [][ ( /\ call'.op \in {"set_secret", "rollback", "commit",
                           "checkout_branch", "rollback_to_commit",
                           "merge_branch"}
          /\ ret'.err # "" ) =>
          UNCHANGED <<secrets, secret_versions, branches, commits,
                      commit_secrets>>
    ]_vars

\* C20: every version-control operation given the name of a branch that
\* does not exist fails with 'Branch not found', and every one given the
\* id of a commit that does not exist fails with 'Commit not found'.
C20_MissingBranchOrCommit ==
    [][ /\ \A n \in BranchNames :
              RowsNamed(branches, n) = {} =>
                 /\ get_status(n).err = "Branch not found"
                 /\ \A limit \in Limits :
                       get_commit_history(n, limit).err = "Branch not found"
        /\ \A a \in CommitIds, b \in CommitIds :
              (CommitRows(a) = {} \/ CommitRows(b) = {}) =>
                 diff_commits(a, b).err = "Commit not found"
        /\ ( /\ call'.op \in {"commit", "checkout_branch"}
             /\ RowsNamed(branches, call'.branch) = {} ) =>
                 ret'.err = "Branch not found"
        /\ ( /\ call'.op = "merge_branch"
             /\ \/ RowsNamed(branches, call'.branch) = {}
                \/ RowsNamed(branches, call'.source) = {} ) =>
                 ret'.err = "Branch not found"
        /\ ( /\ call'.op = "create_branch"
             /\ RowsNamed(branches, call'.branch) = {}
             /\ call'.source # ""
             /\ RowsNamed(branches, call'.source) = {} ) =>
                 ret'.err = "Branch not found"
        /\ ( /\ call'.op = "rollback_to_commit"
             /\ \A k \in commits : k.id # call'.commit_id ) =>
                 ret'.err = "Commit not found"
        /\ ( /\ call'.op = "rollback_to_commit"
             /\ \E k \in commits : k.id = call'.commit_id
             /\ RowsNamed(branches, call'.branch) = {} ) =>
                 ret'.err = "Branch not found"
    ]_vars

\* C21: create_branch(name, from) fails with 'already exists' when name
\* exists and with 'not found' when from is given but missing, leaving the
\* branches unchanged; otherwise it adds one branch with from's head
\* (none when from is not given); it creates no commit and leaves the
\* working set unchanged.
C21_CreateBranch ==
    [][ call'.op = "create_branch" =>
          LET name == call'.branch
              from == call'.source
          IN  /\ IF RowsNamed(branches, name) # {}
                 THEN /\ ret'.err = "Branch already exists"
                      /\ branches' = branches
                 ELSE IF from # "" /\ RowsNamed(branches, from) = {}
                 THEN /\ ret'.err = "Branch not found"
                      /\ branches' = branches
                 ELSE /\ ret'.err = ""
                      /\ \E nb \in branches' \ branches :
                            /\ branches' = branches \cup {nb}
                            /\ nb.name = name
                            /\ IF from = "" THEN nb.head_commit_id = NoHead
                               ELSE \A f \in RowsNamed(branches, from) :
                                       nb.head_commit_id = f.head_commit_id
              /\ UNCHANGED <<secrets, secret_versions, commits,
                             commit_secrets>>
    ]_vars

\* a branch created from a branch that has a head
C21_Witness ==
    /\ call.op = "create_branch" /\ ret.err = ""
    /\ call.source # ""
    /\ \E b \in branches :
          b.name = call.branch /\ b.head_commit_id # NoHead

\* C22: delete_branch('main') fails with 'Cannot delete main branch' and
\* changes nothing; delete_branch of another existing branch removes only
\* that branch row, keeping every commit, every CommitSecret and every
\* other branch's head.
C22_DeleteBranch ==
    [][ call'.op = "delete_branch" =>
          /\ IF call'.branch = "main"
             THEN /\ ret'.err = "Cannot delete main branch"
                  /\ branches' = branches
             ELSE /\ ret'.err = ""
                  /\ ret'.flag = (RowsNamed(branches, call'.branch) # {})
                  /\ branches' = OtherBranches(branches, call'.branch)
          /\ UNCHANGED <<secrets, secret_versions, commits, commit_secrets>>
    ]_vars

\* a deleted branch whose commit and snapshot are still stored, beside main
C22_Witness ==
    /\ call.op = "delete_branch" /\ ret.err = "" /\ ret.flag
    /\ \E k \in commits : k.branch = call.branch /\ SnapshotRows(k.id) # {}
    /\ RowsNamed(branches, "main") # {}
    /\ RowsNamed(branches, call.branch) = {}

\* C23: create_branch(name, from?) of a name other than 'main' that is no
\* branch, followed by delete_branch(name), leaves list_branches as it was
\* before the two calls: the first call keeps every earlier row, the second
\* removes exactly the row the first added.
C23_CreateThenDelete ==
    [][ /\ ( /\ call'.op = "create_branch" /\ ret'.err = ""
             /\ call'.branch # "main" ) =>
             {b \in list_branches' : b.name # call'.branch} = list_branches
        /\ ( /\ call.op = "create_branch" /\ ret.err = ""
             /\ call.branch # "main"
             /\ call'.op = "delete_branch"
             /\ call'.branch = call.branch ) =>
             /\ ret'.err = "" /\ ret'.flag
             /\ list_branches' =
                   {b \in list_branches : b.name # call.branch}
    ]_vars

\* a deletion of a branch that holds no commit of its own, beside a main
\* branch with a head
C23_Witness ==
    /\ call.op = "delete_branch" /\ ret.err = "" /\ ret.flag
    /\ \A k \in commits : k.branch # call.branch
    /\ \E b \in list_branches : b.name = "main" /\ b.head_commit_id # NoHead

\* C24: no path has two current rows.
C24_OneRowPerPath ==
    \A p \in Paths : Cardinality(RowsIn(secrets, p)) <= 1

\* a merge that wrote the working set, after a path was updated
C24_Witness ==
    /\ call.op = "merge_branch" /\ ret.err = "" /\ ret.flag
    /\ secrets # {}
    /\ secret_versions # << >>

\* a is a literal prefix of b
IsPrefix(a, b) ==
    /\ Len(a) <= Len(b)
    /\ \A i \in 1..Len(a) : a[i] = b[i]

\* C25: list_secrets(prefix) returns exactly the current rows whose path
\* starts with prefix, every character matching only itself, all rows
\* when no prefix is given, ordered by path ascending, each with its
\* decrypted value.
C25_ListLiteralPrefix ==
    \A prefix \in Prefixes :
        LET res == list_secrets(prefix)
            listed == res.secrets
            expected == {r \in secrets :
                            IsPrefix(Chars[prefix], Chars[r.path])}
        IN  /\ res.err = ""
            /\ Len(listed) = Cardinality(expected)
            /\ {listed[i].path : i \in 1..Len(listed)} =
                  {r.path : r \in expected}
            /\ \A i \in 1..Len(listed) : \E r \in expected :
                  /\ r.path = listed[i].path
                  /\ listed[i].value = decrypt(r.encrypted_value)
            /\ \A i \in 1..(Len(listed) - 1) :
                  StringLess(Chars[listed[i].path], Chars[listed[i + 1].path])

\* the encrypted_value of every current, SecretVersion and CommitSecret row
StoredValues ==
    {r.encrypted_value : r \in secrets} \cup
    {secret_versions[i].encrypted_value : i \in 1..Len(secret_versions)} \cup
    {c.encrypted_value : c \in commit_secrets}

\* what the cipher has produced so far
CipherOutputs == {encrypt(v, n) : v \in Values, n \in 1..nonces}

\* C27: values are encrypted at rest: after set_secret(p, v) the stored
\* encrypted_value of p differs from v and decrypts to v, and every value
\* stored in a current row, a SecretVersion row or a CommitSecret row is
\* an output of the cipher, never a plaintext.
C27_EncryptedAtRest ==
    /\ StoredValues \subseteq CipherOutputs
    /\ StoredValues \cap Values = {}
    /\ call.op = "set_secret" =>
          \A r \in SecretRows(call.path) :
              /\ r.encrypted_value # call.value
              /\ decrypt(r.encrypted_value) = call.value

C27_Witness ==
    /\ call.op = "set_secret"
    /\ SecretRows(call.path) # {}
    /\ \E i \in 1..Len(secret_versions) :
          secret_versions[i].path = call.path
    /\ \E c \in commit_secrets : c.path = call.path

\* the commands that change the store
MutatingCommands ==
    {"init", "set", "delete", "rollback", "branch_create", "branch_delete",
     "checkout", "commit", "reset", "merge"}

\* C28: with auditing enabled, every mutating command (init, set, delete,
\* rollback, branch creation and deletion, checkout, commit, reset and
\* merge) appends an audit-log entry for that call, whether it succeeds
\* or fails.
C28_EveryMutationAudited ==
    [][(/\ enabled
        /\ cli'.command \in MutatingCommands
        /\ cli'.outcome \in {"ok", "failed"})
       => /\ Len(audit_log') = Len(audit_log) + 1
          /\ audit_log'[Len(audit_log')][1] =
                IF cli'.command \in {"branch_create", "branch_delete"}
                THEN "branch" ELSE cli'.command]_vars

\* whether log returns before it opens the file
Gated(action) == ~enabled \/ (~log_reads /\ action \in {"get", "list"})

\* log has appended exactly one line and has left the earlier ones
OneLineAppended ==
    /\ Len(audit_log') = Len(audit_log) + 1
    /\ SubSeq(audit_log', 1, Len(audit_log)) = audit_log

\* C29 as stated: log appends nothing when enabled is false and nothing
\* for 'get' and 'list' when log_reads is false; in every other case it
\* appends exactly one line and never removes or rewrites an earlier line;
\* no failure to write reaches the caller.
C29_LogAppends ==
    [][/\ cli'.outcome = "returned"
       /\ IF Gated(cli'.command) THEN audit_log' = audit_log
          ELSE OneLineAppended]_vars

\* C29: log appends nothing when enabled is false, nothing for 'get' and
\* 'list' when log_reads is false, and nothing when the file cannot be
\* written; in every other case it appends exactly one line and never
\* removes or rewrites an earlier line; no failure to write reaches the
\* caller.
C29_LogAppendsWhenWritable ==
    [][/\ cli'.outcome = "returned"
       /\ IF Gated(cli'.command) \/ ~log_writable
          THEN audit_log' = audit_log
          ELSE OneLineAppended]_vars

C29_Witness ==
    /\ enabled
    /\ log_writable
    /\ cli.path = "a\nb"
    /\ Len(audit_log) = 2
    /\ audit_log[1] # audit_log[2]

\* two SecretVersion rows with the same (path, version) in the sequence h
DuplicateVersionIn(h) ==
    \E i, j \in 1..Len(h) :
        /\ i # j
        /\ h[i].path = h[j].path
        /\ h[i].version = h[j].version

\* process pr commits an update of a row that another process has
\* committed to since pr read it
StaleCommit(pr) ==
    /\ sessions[pr].state = "open"
    /\ sessions'[pr].state = "closed"
    /\ sessions[pr].found = "one"
    /\ \E r \in SecretRows(sessions[pr].path) :
          r.version # sessions[pr].existing.version

\* C30: when two processes run set_secret on the same existing path and
\* each reads the current row before the other has committed, the second
\* commit leaves two SecretVersion rows with the same (path, version) and
\* writes the version it read plus one, so where the first commit advanced
\* the version by one the second leaves it there: two updates were
\* applied and the version advanced by one.
C30_StaleCommitBreaksContiguity ==
    [][\A pr \in Procs : StaleCommit(pr) =>
          /\ ret'.err = ""
          /\ DuplicateVersionIn(secret_versions')
          /\ \A r \in SecretRows(sessions[pr].path) :
                \A u \in RowsIn(secrets', sessions[pr].path) :
                    /\ u.version = sessions[pr].existing.version + 1
                    /\ (r.version = sessions[pr].existing.version + 1)
                          => u.version = r.version]_vars

C30_Witness ==
    /\ \A pr \in Procs : sessions[pr].state = "closed"
    /\ Len(secret_versions) = 2
    /\ DuplicateVersionIn(secret_versions)
    /\ \E r \in secrets : r.version = 2

\* the Encryptor has finished: it encrypted and decrypted, or it failed
CipherDone ==
    /\ Len(cipher.key) = KeyLen
    /\ cipher.step \in {"failed", "decrypted"}

HasSurrogate(string) == \E i \in 1..Len(string) : string[i] \in Surrogates

\* C26 as stated: for every 32-byte key k and every string v,
\* Encryptor(k).decrypt(Encryptor(k).encrypt(v)) returns v, the empty
\* string included.
C26_RoundTrip ==
    CipherDone =>
        /\ cipher.step = "decrypted"
        /\ cipher.decrypted = cipher.plaintext

\* C26: for every 32-byte key k and every string v that UTF-8 can encode
\* (one with no surrogate code point),
\* Encryptor(k).decrypt(Encryptor(k).encrypt(v)) returns v, the empty
\* string included; for a string with a surrogate code point encrypt
\* raises EncryptionError.
C26_RoundTripEncodable ==
    CipherDone =>
        IF HasSurrogate(cipher.plaintext)
        THEN cipher.step = "failed" /\ cipher.err = "EncryptionError"
        ELSE /\ cipher.step = "decrypted"
             /\ cipher.decrypted = cipher.plaintext
             /\ cipher.encrypted # cipher.plaintext

C26_Witness ==
    /\ cipher.step = "decrypted"
    /\ Len(cipher.key) = KeyLen
    /\ Len(cipher.plaintext) = MaxPlainLen
    /\ \E i \in 1..Len(cipher.plaintext) : cipher.plaintext[i] > 65535
    /\ \E i \in 1..Len(cipher.plaintext) : cipher.plaintext[i] = 233

(***************************************************************************)
(* Specification of the variable expansion: values that reference each     *)
(* other, themselves, or a path with no current row                        *)
(***************************************************************************)
RefValues == {<<Lit("x")>>, <<Ref("a")>>, <<Ref("b")>>}

RECURSIVE RecursionErrorIn(_, _, _)
RECURSIVE ExpandRecursionErrorIn(_, _, _, _, _)

\* _expand_variables(value, path, visited) raises RecursionError in one of
\* its frames: the frames run out, or a replace_var of the value runs the
\* nested get_secret, or the nested _expand_variables, out of frames
ExpandRecursionErrorIn(S, value, path, visited, depth) ==
    IF depth <= 0 THEN TRUE
    ELSE IF path \in visited THEN FALSE
    ELSE \E i \in 1..Len(value) :
            /\ value[i].kind = "ref"
            /\ LET var_secret == GetSecretIn(S, value[i].s, depth - 1)
               IN  \/ RecursionErrorIn(S, value[i].s, depth - 1)
                   \/ /\ var_secret.found /\ var_secret.err = ""
                      /\ ExpandRecursionErrorIn(S, var_secret.value,
                                                value[i].s,
                                                visited \cup {path},
                                                depth - 1)

\* get_secret(path) with `depth` frames left raises RecursionError in one
\* of its frames (replace_var catches it and leaves the match as it is)
RecursionErrorIn(S, path, depth) ==
    LET rows == {r \in S : r.path = path}
    IN  IF depth <= 0 THEN TRUE
        ELSE IF scalar_one_or_none(rows) # "one" THEN FALSE
        ELSE ExpandRecursionErrorIn(S, decrypt(TheRow(rows).encrypted_value),
                                    path, {}, depth)

RefSetSecret ==
    /\ nonces < MaxEnc
    /\ \E p \in Paths, v \in RefValues : set_secret(p, v, "secret", << >>)
    /\ UNCHANGED aux_vars

RefDeleteSecret ==
    /\ \E p \in Paths : delete_secret(p)
    /\ UNCHANGED aux_vars

\* a get_secret call: the Secret it returns, or None, or its exception
RefGetSecret ==
    /\ \E p \in Paths :
          LET got == get_secret(p)
          IN  /\ call' = [NoCall EXCEPT !.op = "get_secret", !.path = p]
              /\ ret' = [NoRet EXCEPT !.err = got.err, !.secret = got,
                                      !.flag = RecursionErrorIn(secrets, p,
                                                                MaxDepth)]
    /\ UNCHANGED <<secrets, secret_versions, branches, commits,
                   commit_secrets, nonces>>
    /\ UNCHANGED aux_vars

RefNext ==
    \/ RefSetSecret
    \/ RefDeleteSecret
    \/ RefGetSecret

SpecRefs == Init /\ [][RefNext]_vars

\* the stored plaintext of the current row of path p
StoredValue(p) == decrypt(TheRow(SecretRows(p)).encrypted_value)

OnlyMissingRefs(value) ==
    \A i \in 1..Len(value) :
        value[i].kind = "ref" => SecretRows(value[i].s) = {}

\* C31: get_secret(p) terminates for every store content: when values
\* reference each other cyclically through ${path} (a value that references
\* its own path included) the cycle is detected and never followed until the
\* call frames run out, and a ${path} reference to a path with no current
\* row is left in the returned value unchanged.
C31_CyclesDetected ==
    call.op = "get_secret" =>
        /\ ~ret.flag
        /\ (SecretRows(call.path) # {} /\ OnlyMissingRefs(StoredValue(call.path)))
              => (ret.secret.found /\ ret.secret.value = StoredValue(call.path))

\* the part of C31 about references to paths with no current row
C31_MissingReferenceKept ==
    (call.op = "get_secret" /\ SecretRows(call.path) # {}
        /\ OnlyMissingRefs(StoredValue(call.path)))
        => (ret.secret.found /\ ret.secret.value = StoredValue(call.path))

\* get_secret on a path whose value references the path itself returned
\* after running out of frames
C31_SelfReferenceFollowed ==
    /\ call.op = "get_secret" /\ ret.flag /\ ret.err = ""
    /\ \E i \in 1..Len(StoredValue(call.path)) :
          StoredValue(call.path)[i] = Ref(call.path)

VceOps == {"commit", "checkout_branch", "rollback_to_commit", "merge_branch",
           "create_branch", "delete_branch"}

\* C32: commit, checkout_branch, rollback_to_commit, merge_branch,
\* create_branch and delete_branch never insert, change or delete a
\* SecretVersion row; the SecretVersion rows of a path whose current row a
\* checkout removed or replaced are still present afterwards.
C32_VersionRowsUntouched ==
    [][call'.op \in VceOps => secret_versions' = secret_versions]_vars

\* a checkout removed the current row of a path that has SecretVersion rows
C32_Witness ==
    /\ call.op = "checkout_branch" /\ ret.err = ""
    /\ \E i \in 1..Len(secret_versions) :
          SecretRows(secret_versions[i].path) = {}

\* C33: set_secret on an existing path never changes the row's type (the
\* secret_type argument is ignored) and replaces its tags by the given list
\* (the empty list when none is given); rollback changes neither the type
\* nor the tags of the current row.
C33_TypeAndTagsFrame ==
    [][/\ (call'.op = "set_secret"
             /\ scalar_one_or_none(SecretRows(call'.path)) = "one") =>
            \E r \in RowsIn(secrets', call'.path) :
                /\ RowsIn(secrets', call'.path) = {r}
                /\ r.type = TheRow(SecretRows(call'.path)).type
                /\ r.tags = call'.tags
       /\ (call'.op = "rollback"
             /\ scalar_one_or_none(SecretRows(call'.path)) = "one") =>
            \E r \in RowsIn(secrets', call'.path) :
                /\ RowsIn(secrets', call'.path) = {r}
                /\ r.type = TheRow(SecretRows(call'.path)).type
                /\ r.tags = TheRow(SecretRows(call'.path)).tags
      ]_vars

\* a rollback of a row whose tags a set_secret with another secret_type
\* replaced: the row keeps the first type and the later tags
C33_Witness ==
    /\ call.op = "rollback" /\ ret.err = ""
    /\ \E r \in SecretRows(call.path) :
          r.version = 3 /\ r.type = "secret" /\ r.tags = <<"prod">>

\* the merge command on the current branch itself: it exits before any
\* storage call
C34_CommandRefusesSelfMerge ==
    [][(cli' # cli /\ cli'.command = "merge" /\ cli'.path = current_branch) =>
          /\ cli'.outcome = "exit"
          /\ UNCHANGED <<secrets, secret_versions, branches, commits,
                         commit_secrets>>]_vars

\* C34: a merge whose source branch equals its target branch, through the
\* merge command or through a direct merge_branch(t, t) call, is refused
\* with 'Cannot merge branch into itself' and changes neither the working
\* set nor any branch or commit.
C34_SelfMergeRefused ==
    [][/\ (cli' # cli /\ cli'.command = "merge"
             /\ cli'.path = current_branch) =>
            /\ cli'.outcome = "exit"
            /\ UNCHANGED <<secrets, branches, commits, commit_secrets>>
       /\ (call'.op = "merge_branch" /\ call'.branch = call'.source) =>
            /\ ret'.err = "Cannot merge branch into itself"
            /\ UNCHANGED <<secrets, branches, commits, commit_secrets>>
      ]_vars

\* the same statement about the working set alone: a direct
\* merge_branch(t, t) leaves the current rows as they are
C34_SelfMergeKeepsWorkingSet ==
    [][(call'.op = "merge_branch" /\ call'.branch = call'.source) =>
          secrets' = secrets]_vars

(***************************************************************************)
(* Specification of the merge command run with --force, over two branches  *)
(* whose head snapshots can hold different values of one path              *)
(***************************************************************************)
MaxForceCommits == 3

ForceInit == init

ForceSet ==
    /\ nonces < MaxEnc
    /\ \E v \in VcValues : cli_set("a", v, "secret")

ForceBranch == \E name \in BranchNames : branch(name, "", "")

ForceCheckout == \E b \in BranchNames : checkout(b, TRUE)

ForceCommit ==
    /\ Cardinality(commits) < MaxForceCommits - 1
    /\ cli_commit

ForceMerge ==
    /\ Cardinality(commits) < MaxForceCommits
    /\ \E s \in BranchNames : merge(s, TRUE)

ForceMergeCommit == merge_commit

ForceNext ==
    \/ ForceInit
    \/ ForceSet
    \/ ForceBranch
    \/ ForceCheckout
    \/ ForceCommit
    \/ ForceMerge
    \/ ForceMergeCommit

SpecForce == Init /\ [][ForceNext]_vars

\* C35: the merge command run with --force on a merge that has conflicts
\* accepts the incoming changes: the working set takes the source branch's
\* rows for the conflicting paths and a merge commit is created on the
\* current branch.
C35_ForceAcceptsIncoming ==
    [][(/\ cli' # cli /\ cli'.command = "merge"
        /\ cli'.path # current_branch
        /\ call'.op = "merge_branch" /\ ret'.conflicts # {}) =>
          /\ cli'.pc = "merge_commit"
          /\ \A c \in ret'.conflicts :
                \E r \in RowsIn(secrets', c.path) :
                    decrypt(r.encrypted_value) = c.incoming_value
      ]_vars

\* what the forced merge with conflicts does: it exits with "Merge failed"
\* and leaves the working set, the branches and the commits as they were
C35_ForceWithConflictsFails ==
    [][(/\ cli' # cli /\ cli'.command = "merge"
        /\ cli'.path # current_branch
        /\ call'.op = "merge_branch" /\ ret'.conflicts # {}) =>
          /\ cli'.outcome = "exit" /\ cli'.pc = ""
          /\ UNCHANGED <<secrets, secret_versions, branches, commits,
                         commit_secrets>>
      ]_vars

CommitIdsOf(C) == {k.id : k \in C}

\* following parent_id from commit id reaches null within `fuel` steps
RECURSIVE ChainEnds(_, _, _)
ChainEnds(C, id, fuel) ==
    IF id = NoHead THEN TRUE
    ELSE IF fuel = 0 \/ id \notin CommitIdsOf(C) THEN FALSE
    ELSE \A k \in {o \in C : o.id = id} : ChainEnds(C, k.parent_id, fuel - 1)

\* C36: after any sequence of operations, every branch's head_commit_id is
\* null or the id of an existing commit, and every commit's parent_id is
\* null or the id of an existing commit with a smaller id, so every parent
\* chain is acyclic and ends at a root commit with parent_id null.
C36_CommitGraph ==
    /\ \A b \in branches :
          b.head_commit_id = NoHead \/ b.head_commit_id \in CommitIdsOf(commits)
    /\ \A k \in commits :
          \/ k.parent_id = NoHead
          \/ k.parent_id \in CommitIdsOf(commits) /\ k.parent_id < k.id
    /\ \A k \in commits : ChainEnds(commits, k.id, Cardinality(commits))
    /\ \A b \in branches :
          ChainEnds(commits, b.head_commit_id, Cardinality(commits))

\* two branches, a commit with a parent, and a head that rollback_to_commit
\* moved back to the parent
C36_Witness ==
    /\ call.op = "rollback_to_commit" /\ ret.err = ""
    /\ \E k \in commits : k.parent_id # NoHead
    /\ \E b1, b2 \in branches :
          /\ b1.head_commit_id # NoHead /\ b2.head_commit_id # NoHead
          /\ b1.head_commit_id < b2.head_commit_id
          /\ \E k \in commits :
                k.id = b2.head_commit_id /\ k.parent_id = b1.head_commit_id

\* C37: once a commit is created, its fields and its set of CommitSecret
\* rows (paths, ciphertexts, types, tags) never change and are never deleted
\* by any later operation, set_secret, delete_secret, delete_branch,
\* rollback_to_commit and merge_branch included; the snapshot's paths are
\* exactly the working-set paths at commit time.
C37_CommitsImmutable ==
    [][/\ \A k \in commits :
             /\ k \in commits'
             /\ \A o \in commits' : o.id = k.id => o = k
             /\ {cs \in commit_secrets' : cs.commit_id = k.id} =
                   SnapshotRows(k.id)
       /\ (call'.op = "commit" /\ ret'.err = "") =>
             /\ ret'.commit_id \notin CommitIdsOf(commits)
             /\ ret'.commit_id \in CommitIdsOf(commits')
             /\ PathsOf({cs \in commit_secrets' :
                           cs.commit_id = ret'.commit_id}) = PathsOf(secrets)
      ]_vars

\* a second commit was made after the working set changed: the first
\* commit still holds its snapshot, which differs from the second
C37_Witness ==
    /\ call.op = "commit" /\ ret.err = "" /\ ret.commit_id = 2
    /\ \E k \in commits : k.id = 1
    /\ SnapshotRows(1) # {}
    /\ PathsOf(SnapshotRows(1)) # PathsOf(SnapshotRows(2))

\* C38: in every reachable state no two SecretVersion rows share the same
\* (path, version), so the lookup in rollback(p, k) matches at most one row
\* and rollback never fails for a reason other than 'Version {k} not found
\* for {p}' or 'Secret {p} not found'.
C38_UniqueVersionRows ==
    /\ ~DuplicateVersionIn(secret_versions)
    /\ call.op = "rollback" =>
          ret.err \in {"", "Version not found", "Secret not found"}

\* the second half of C38 alone: rollback fails only with one of the two
\* messages
C38_RollbackErrors ==
    call.op = "rollback" =>
        ret.err \in {"", "Version not found", "Secret not found"}

\* C39: after init and any sequence of branch, checkout, commit, reset and
\* merge commands, the current branch recorded by the configuration names
\* an existing branch, so status and commit on the current branch never
\* fail with 'Branch ... not found'.
C39_CurrentBranchExists ==
    /\ current_branch # "" => BranchRows(current_branch) # {}
    /\ cli.command = "commit" => ret.err # "Branch not found"

\* the commit half of C39 alone
C39_CommitFindsBranch ==
    cli.command = "commit" => ret.err # "Branch not found"

\* C40: rollback copies the stored ciphertext of the target version without
\* re-encrypting it: if p was committed on branch b with ciphertext c, then
\* changed by set_secret, and rollback(p, k) restores the history version
\* holding c, get_status(b) no longer lists p as modified.
C40_RollbackCopiesCiphertext ==
    [][(call'.op = "rollback" /\ ret'.err = "") =>
          LET p == call'.path
              target == secret_versions[TheRow(version_rows(p, call'.version))]
          IN  /\ \E r \in RowsIn(secrets', p) :
                    /\ RowsIn(secrets', p) = {r}
                    /\ r.encrypted_value = target.encrypted_value
              /\ nonces' = nonces
              /\ \A b \in branches :
                    (/\ b.head_commit_id # NoHead
                     /\ \E cs \in SnapshotRows(b.head_commit_id) :
                           /\ cs.path = p
                           /\ cs.encrypted_value = target.encrypted_value) =>
                       LET status == GetStatusIn(secrets', branches',
                                                 commit_secrets', b.name)
                       IN  status.err = "" /\ p \notin status.modified
      ]_vars

\* a path committed on a branch, changed by set_secret and rolled back to
\* the committed ciphertext: the status of the branch is clean for it
C40_Witness ==
    /\ call.op = "rollback" /\ ret.err = ""
    /\ \E b \in branches, r \in SecretRows(call.path) :
          /\ b.head_commit_id # NoHead
          /\ r.version = 3
          /\ \E cs \in SnapshotRows(b.head_commit_id) :
                /\ cs.path = call.path
                /\ cs.encrypted_value = r.encrypted_value
                /\ \E i \in VersionIdx(call.path) :
                      secret_versions[i].encrypted_value # cs.encrypted_value
          /\ call.path \notin get_status(b.name).modified

====
